---- MODULE Spec2Model ----
(***************************************************************************)
(* cert-tracker as a state machine.                                        *)
(*                                                                         *)
(* resolve (package main): one goroutine per hostname performs a forward   *)
(* lookup, then one reverse lookup per returned address, and delivers one  *)
(* outcome on a buffered channel; the calling goroutine collects           *)
(* len(hostnames) outcomes with a select that also watches the Done        *)
(* channel of the shared context.  Spec and LiveSpec call resolve once.    *)
(* LogSpec calls it once under a logger whose records are captured.        *)
(*                                                                         *)
(* main: loadConfig reads config.json through package cfg, run() builds a  *)
(* resolver, calls resolve and probes every returned address over TLS,     *)
(* logging each certificate of the chain; main calls run() once and then   *)
(* once per tick of a ticker.  MainSpec and MainLiveSpec run the program.  *)
(*                                                                         *)
(* UnitSpec calls Hostname.UnmarshalJSON and the resolver factory alone.   *)
(***************************************************************************)
EXTENDS Integers, Sequences, FiniteSets

\* ------------------------------------------------------------------ bounds
MaxHosts == 2       \* longest hostname list of a pass
MaxAddrs == 2       \* most addresses one forward lookup returns

\* ------------------------------------------------------------ input domains
Hostname == {"a.example", "b.example"}

HostnameLists == UNION {[1..n -> Hostname] : n \in 0..MaxHosts}

\* time.Duration(timeout) as context.WithTimeout sees it: 0 stands for a
\* duration that is over before the call returns (the context is born
\* expired), 1 for every longer one (its timer fires at some later moment).
Timeouts == {0, 1}

\* An answer of the resolver to a forward lookup: at least one address.
IPAddrAnswers == {[i \in 1..n |-> i] : n \in 1..MaxAddrs}

\* The error a failed LookupIPAddr returns for a hostname.
LookupError(hostname) == "lookup " \o hostname

\* --------------------------------------------------------------- the state
VARIABLES
    pc,             \* position of the goroutine that called resolve
    hostnames,      \* argument of resolve
    timeout,        \* argument of resolve
    ctxErr,         \* ctx.Err(): "nil", "DeadlineExceeded" or "Canceled"
    worker,         \* one goroutine per index of hostnames: its position, its locals,
                    \* the channels it has sent on and its records in logOutput
    mappings,       \* chan nameAddressMap, buffered
    errors,         \* chan error, buffered
    results,        \* local slice of resolve
    errs,           \* local slice of resolve
    ret,            \* what resolve returned: [results, err]
    pendingAtDeadline,  \* history: a worker had not delivered when the deadline elapsed
    lateFwd,        \* history: a forward lookup returned after the deadline elapsed
    revFailed,      \* history: a reverse lookup returned an error
    revCancelled,   \* history: a reverse lookup returned an error after the deadline elapsed
    cut,            \* history: the select took the ctx.Done() case
    resolveLog,     \* the records in logOutput of the goroutine that called resolve
    leftover        \* the goroutines of abandoned passes whose lookups are still
                    \* outstanding: their hostnames

\* the state outside resolve: the program around it (func main, loadConfig,
\* certificates, handle), and the calls made on Hostname.UnmarshalJSON and
\* on the resolver factory
VARIABLES
    file,           \* content of config.json
    config,         \* cfg.Params returned by cfg.Load
    loadErr,        \* error returned by cfg.Load ("none" before the call)
    netResolver,    \* *net.Resolver built by resolver()
    dialed,         \* the last dial made by netResolver.Dial
    tickerC,        \* ticker.C: "none" before time.NewTicker, else "empty" or "tick"
    runLog,         \* what run() has logged in the current cycle
    cursor,         \* position of the two range loops of run()
    probes,         \* history: the calls of certificates made in the current cycle
    conn,           \* the TLS connection of the current call of certificates
    events,         \* what the current call of certificates has logged
    dialFailed,     \* history: a dial of the current cycle failed
    hostnameCall,   \* the last call of Hostname.UnmarshalJSON
    log             \* the package logger: the level of its handler

\* the state of one call of resolve
passVars == <<hostnames, timeout, ctxErr, worker, mappings, errors, results, errs,
              ret, pendingAtDeadline, lateFwd, revFailed, revCancelled, cut, resolveLog, leftover>>

resolveVars == <<pc, passVars>>

outerVars == <<file, config, loadErr, netResolver, dialed, tickerC, runLog, cursor,
               probes, conn, events, dialFailed, hostnameCall, log>>

vars == <<resolveVars, outerVars>>

\* zero value of cfg.Params
ZeroParams ==
    [DNSresolvers |-> <<>>, Hostnames |-> <<>>, Timeout |-> 0, ScanInterval |-> 0,
     LogLevel |-> 0, LogAddSource |-> FALSE]

\* the JSON value null
JNull == [kind |-> "null", text |-> <<>>]

\* a JSON document of the shape of cfg.Params, every member null or empty
EmptyDoc ==
    [dnsResolvers |-> <<>>, hostnames |-> <<>>, timeout |-> JNull, scanInterval |-> JNull,
     logLevel |-> JNull, logAddSource |-> JNull]

\* no config.json in the working directory
MissingFile == [exists |-> FALSE, wellFormed |-> FALSE, doc |-> EmptyDoc]

NoResolver == [built |-> FALSE]

NoDial == [made |-> FALSE]

NoConn == [open |-> FALSE, chain |-> <<>>, i |-> 0]

FirstCursor == [m |-> 1, a |-> 1]

NoCall == [called |-> FALSE]

\* the program around resolve has not started
OuterIdle ==
    /\ config = ZeroParams
    /\ loadErr = "none"
    /\ netResolver = NoResolver
    /\ dialed = NoDial
    /\ tickerC = "none"
    /\ runLog = <<>>
    /\ cursor = FirstCursor
    /\ probes = <<>>
    /\ conn = NoConn
    /\ events = <<>>
    /\ dialFailed = FALSE
    /\ hostnameCall = NoCall

NoReturn == [results |-> <<>>, err |-> "none"]

\* slog.Level of a level name
SlogLevel(level) ==
    CASE level = "DEBUG" -> -4
      [] level = "INFO"  -> 0
      [] level = "WARN"  -> 4
      [] level = "ERROR" -> 8

\* var log *slog.Logger before loadConfig assigns it
NilLogger == [handler |-> FALSE, Writer |-> "none", Level |-> 0]

\* slog.New(slog.NewJSONHandler(writer, &slog.HandlerOptions{Level: level})):
\* the writer is os.Stdout, or the strings.Builder logOutput of a test that
\* captures the log
NewLogger(writer, level) == [handler |-> TRUE, Writer |-> writer, Level |-> level]

\* the handler's Enabled: a record below the handler's level is not written
Enabled(level) == log.handler /\ SlogLevel(level) >= log.Level

\* what log.Warn, log.Info or log.Debug leaves in logOutput for one record;
\* what is written to os.Stdout has left the program
Written(record) ==
    IF Enabled(record.level) /\ log.Writer = "logOutput" THEN <<record>> ELSE <<>>

Workers == DOMAIN worker

\* mutant: the select has no ctx.Done() case
DoneNever == FALSE

\* ctx.Done() is closed
Done == ctxErr # "nil"

\* mutant: the channels hold one item
ChanCapOne(hs) == IF Len(hs) = 0 THEN 0 ELSE 1

\* make(chan ..., len(hostnames))
ChanCap(hs) == Len(hs)

\* mutant: the collecting loop runs at least once
LoopCountAtLeastOne(hs) == IF Len(hs) = 0 THEN 1 ELSE Len(hs)

\* mutant: the collecting loop ends with the first outcome
LoopCountFirst(hs) == IF Len(hs) = 0 THEN 0 ELSE 1

\* number of iterations of `for range hostnames`
LoopCount(hs) == Len(hs)

\* mutant: every goroutine reads one shared loop variable, left at the last hostname
WorkerHostnameShared(hs, w) == hs[Len(hs)]

\* the goroutine's captured loop variable
WorkerHostname(hs, w) == hs[w]

\* mutant: one goroutine per distinct hostname only
WorkerIdsDistinct(hs) == {i \in DOMAIN hs : \A j \in 1..(i - 1) : hs[j] # hs[i]}

\* for _, hostname := range hostnames { go func() ... }: one goroutine per index
WorkerIds(hs) == DOMAIN hs

Delivered(w) == worker[w].st = "done"

\* nothing of resolve exists before its first call
ResolveIdle ==
    /\ hostnames = <<>>
    /\ timeout = 0
    /\ ctxErr = "nil"
    /\ worker = <<>>
    /\ mappings = <<>>
    /\ errors = <<>>
    /\ results = <<>>
    /\ errs = <<>>
    /\ ret = NoReturn
    /\ pendingAtDeadline = FALSE
    /\ lateFwd = FALSE
    /\ revFailed = FALSE
    /\ revCancelled = FALSE
    /\ cut = FALSE
    /\ resolveLog = <<>>
    /\ leftover = {}

\* a test calls resolve, the resolver factory or the Hostname decoder directly
Init ==
    /\ pc = "main"
    /\ ResolveIdle
    /\ file = MissingFile
    /\ OuterIdle
    /\ log = NewLogger("os.Stdout", SlogLevel("ERROR"))

\* The goroutines that outlive the call of resolve that started them.  They
\* keep the channels of their own call, which nobody reads any more; of each
\* only the hostname is kept, while one of its lookups is outstanding.
Abandoned ==
    leftover \cup {worker[w].hostname : w \in {v \in Workers : worker[v].st # "done"}}

\* resolve is entered: the context is created, the channels are made and one
\* goroutine per hostname is started.
ResolveCall(hs, t) ==
    /\ pc = "main"
    /\ hostnames' = hs
    /\ timeout' = t
    /\ ctxErr' = IF t = 0 THEN "DeadlineExceeded" ELSE "nil"
    /\ worker' = [w \in WorkerIds(hs) |->
                    [st |-> "lookup", fwd |-> "none",
                     hostname |-> WorkerHostname(hs, w),
                     ipAddrs |-> <<>>, addresses |-> <<>>,
                     sent |-> <<>>, logged |-> <<>>]]
    /\ mappings' = <<>>
    /\ errors' = <<>>
    /\ results' = <<>>
    /\ errs' = <<>>
    /\ pendingAtDeadline' = (t = 0 /\ Len(hs) > 0)
    /\ pc' = "collect"
    /\ UNCHANGED outerVars
    /\ ret' = NoReturn
    /\ lateFwd' = FALSE
    /\ revFailed' = FALSE
    /\ revCancelled' = FALSE
    /\ cut' = FALSE
    /\ resolveLog' = <<>>
    /\ leftover' = Abandoned

\* The timer of context.WithTimeout fires: the shared deadline has elapsed.
DeadlineElapses ==
    /\ pc # "main"
    /\ timeout > 0
    /\ ctxErr = "nil"
    /\ ctxErr' = "DeadlineExceeded"
    /\ pendingAtDeadline' = (\E w \in Workers : ~Delivered(w))
    /\ UNCHANGED outerVars
    /\ UNCHANGED <<pc, resolveLog, leftover, hostnames, timeout, worker, mappings, errors, results,
                   errs, ret, lateFwd, revFailed, revCancelled, cut>>

\* ------------------------------------------------------------- the workers
\* A step of a worker runs from the return of one lookup to the call of the
\* next one, or to the end of the goroutine; a send is part of the step, and
\* the step waits while the channel is full.

\* a sequence without the later occurrences of its elements
RECURSIVE Distinct(_)
Distinct(s) ==
    IF s = <<>> THEN <<>>
    ELSE LET r == Distinct(SubSeq(s, 1, Len(s) - 1)) IN
         IF \E i \in DOMAIN r : r[i] = s[Len(s)] THEN r ELSE Append(r, s[Len(s)])

\* mutant: an address is reported once
NewMappingDistinct(hostname, addresses) ==
    [Hostname |-> hostname, IPAddresses |-> Distinct(addresses)]

\* nameAddressMap{Hostname: hostname, IPAddresses: addresses}
NewMapping(hostname, addresses) == [Hostname |-> hostname, IPAddresses |-> addresses]

\* mappings <- nameAddressMap{...}, the last statement of the goroutine
SendMapping(w, addresses) ==
    /\ Len(mappings) < ChanCap(hostnames)
    /\ mappings' = Append(mappings, NewMapping(worker[w].hostname, addresses))
    /\ UNCHANGED errors

\* errors <- err; return
SendError(w) ==
    /\ Len(errors) < ChanCap(hostnames)
    /\ errors' = Append(errors, LookupError(worker[w].hostname))
    /\ UNCHANGED mappings

\* resolver.LookupIPAddr returns addresses: the loop over ipAddrs appends the
\* first address and calls resolver.LookupAddr for it.
ForwardLookupOk(w, ipAddrs) ==
    /\ w \in Workers
    /\ worker[w].st = "lookup"
    /\ IF Len(ipAddrs) = 0
         THEN /\ worker' = [worker EXCEPT ![w].st = "done", ![w].fwd = "ok",
                                          ![w].sent = Append(@, "mappings")]
              /\ SendMapping(w, <<>>)
         ELSE /\ worker' = [worker EXCEPT ![w].st = "reverse", ![w].fwd = "ok",
                                          ![w].ipAddrs = ipAddrs,
                                          ![w].addresses = <<ipAddrs[1]>>]
              /\ UNCHANGED <<mappings, errors>>
    /\ lateFwd' = (lateFwd \/ Done)
    /\ UNCHANGED outerVars
    /\ UNCHANGED <<pc, resolveLog, leftover, hostnames, timeout, ctxErr, results, errs, ret,
                   pendingAtDeadline, revFailed, revCancelled, cut>>

\* mutant: the return after `errors <- err` is missing: the goroutine goes on
\* with no addresses and sends a mapping as well
ForwardLookupErrNoReturn(w) ==
    /\ w \in Workers
    /\ worker[w].st = "lookup"
    /\ worker' = [worker EXCEPT ![w].st = "done", ![w].fwd = "fail",
                                ![w].sent = <<"errors", "mappings">>]
    /\ Len(errors) < ChanCap(hostnames)
    /\ errors' = Append(errors, LookupError(worker[w].hostname))
    /\ Len(mappings) < ChanCap(hostnames)
    /\ mappings' = Append(mappings, NewMapping(worker[w].hostname, <<>>))
    /\ lateFwd' = (lateFwd \/ Done)
    /\ UNCHANGED outerVars
    /\ UNCHANGED <<pc, resolveLog, leftover, hostnames, timeout, ctxErr, results, errs, ret,
                   pendingAtDeadline, revFailed, revCancelled, cut>>

\* resolver.LookupIPAddr returns an error: the worker reports it and ends.
ForwardLookupErr(w) ==
    /\ w \in Workers
    /\ worker[w].st = "lookup"
    /\ worker' = [worker EXCEPT ![w].st = "done", ![w].fwd = "fail",
                                ![w].sent = Append(@, "errors")]
    /\ SendError(w)
    /\ lateFwd' = (lateFwd \/ Done)
    /\ UNCHANGED outerVars
    /\ UNCHANGED <<pc, resolveLog, leftover, hostnames, timeout, ctxErr, results, errs, ret,
                   pendingAtDeadline, revFailed, revCancelled, cut>>

\* a record about an address
AddrEvent(level, msg, addr) == [level |-> level, msg |-> msg, addr |-> addr]

\* mutant: the error of a reverse lookup is dropped without a record
ReverseLookupLogSilent(addr, ok) ==
    IF ~ok THEN <<>>
    ELSE Written(AddrEvent("INFO", "reverse DNS lookup", addr))

\* what the worker logs when resolver.LookupAddr has returned for an address:
\* a warning for an error, else one info record for the name it returned
ReverseLookupLog(addr, ok) ==
    IF ~ok THEN Written(AddrEvent("WARN", "reverse lookup error", addr))
    ELSE Written(AddrEvent("INFO", "reverse DNS lookup", addr))

\* mutant: a failed reverse lookup is reported like a failed forward lookup
ReverseLookupReturnFatal(w, ok) ==
    /\ w \in Workers
    /\ worker[w].st = "reverse"
    /\ revFailed' = (revFailed \/ ~ok)
    /\ revCancelled' = (revCancelled \/ (~ok /\ Done))
    /\ LET n == Len(worker[w].addresses) IN
       IF ~ok
         THEN /\ worker' = [worker EXCEPT ![w].st = "done",
                                          ![w].sent = Append(@, "errors")]
              /\ SendError(w)
         ELSE IF n < Len(worker[w].ipAddrs)
                THEN /\ worker' = [worker EXCEPT ![w].addresses =
                                      Append(@, worker[w].ipAddrs[n + 1])]
                     /\ UNCHANGED <<mappings, errors>>
                ELSE /\ worker' = [worker EXCEPT ![w].st = "done",
                                                 ![w].sent = Append(@, "mappings")]
                     /\ SendMapping(w, worker[w].addresses)
    /\ UNCHANGED outerVars
    /\ UNCHANGED <<pc, resolveLog, leftover, hostnames, timeout, ctxErr, results, errs, ret,
                   pendingAtDeadline, lateFwd, cut>>

\* mutant: the mapping is sent inside the loop, once per address
ReverseLookupReturnSendEach(w, ok) ==
    /\ w \in Workers
    /\ worker[w].st = "reverse"
    /\ revFailed' = (revFailed \/ ~ok)
    /\ revCancelled' = (revCancelled \/ (~ok /\ Done))
    /\ LET n == Len(worker[w].addresses) IN
       /\ worker' = [worker EXCEPT ![w] =
                       IF n < Len(@.ipAddrs)
                         THEN [@ EXCEPT !.addresses = Append(@, worker[w].ipAddrs[n + 1]),
                                        !.sent = Append(@, "mappings")]
                         ELSE [@ EXCEPT !.st = "done", !.sent = Append(@, "mappings")]]
       /\ SendMapping(w, worker[w].addresses)
    /\ UNCHANGED outerVars
    /\ UNCHANGED <<pc, resolveLog, leftover, hostnames, timeout, ctxErr, results, errs, ret,
                   pendingAtDeadline, lateFwd, cut>>

\* resolver.LookupAddr returns (ok or not): the result is only logged; the
\* loop goes on to the next address, or ends and the mapping is sent.
ReverseLookupReturn(w, ok) ==
    /\ w \in Workers
    /\ worker[w].st = "reverse"
    /\ revFailed' = (revFailed \/ ~ok)
    /\ revCancelled' = (revCancelled \/ (~ok /\ Done))
    /\ LET n == Len(worker[w].addresses)
           records == worker[w].logged \o ReverseLookupLog(worker[w].addresses[n], ok)
       IN
       IF n < Len(worker[w].ipAddrs)
         THEN /\ worker' = [worker EXCEPT ![w].addresses =
                               Append(@, worker[w].ipAddrs[n + 1]),
                                          ![w].logged = records]
              /\ UNCHANGED <<mappings, errors>>
         ELSE /\ worker' = [worker EXCEPT ![w].st = "done", ![w].logged = records,
                                          ![w].sent = Append(@, "mappings")]
              /\ SendMapping(w, worker[w].addresses)
    /\ UNCHANGED outerVars
    /\ UNCHANGED <<pc, resolveLog, leftover, hostnames, timeout, ctxErr, results, errs, ret,
                   pendingAtDeadline, lateFwd, cut>>

\* mutant: the channels are package variables made once, a goroutine of an
\* abandoned pass sends on the channel the current pass reads
LeftoverDeliversShared(l) ==
    /\ l \in leftover
    /\ leftover' = leftover \ {l}
    /\ mappings' = Append(mappings, NewMapping(l, <<1>>))
    /\ UNCHANGED outerVars
    /\ UNCHANGED <<pc, resolveLog, hostnames, timeout, ctxErr, worker, errors, results, errs,
                   ret, pendingAtDeadline, lateFwd, revFailed, revCancelled, cut>>

\* The lookups of a goroutine of an abandoned pass return and it delivers its
\* outcome, an error or a mapping, on the channel of its own pass, and ends.
LeftoverDelivers(l) ==
    /\ l \in leftover
    /\ leftover' = leftover \ {l}
    /\ UNCHANGED outerVars
    /\ UNCHANGED <<pc, resolveLog, hostnames, timeout, ctxErr, worker, mappings, errors,
                   results, errs, ret, pendingAtDeadline, lateFwd, revFailed,
                   revCancelled, cut>>

\* ----------------------------------------------------------- the collector
\* iterations of `for range hostnames` completed so far
Collected == Len(results) + Len(errs)

\* mutant: the successes collected so far are returned with the error
DeadlineReturnPartial(res, e) == [results |-> res, err |-> e]

\* return nil, ctx.Err()
DeadlineReturn(res, e) == [results |-> <<>>, err |-> e]

\* mutant: the first failure is returned as the error of the pass
FinalReturnFirstError(res, es) ==
    [results |-> res, err |-> IF es # <<>> THEN es[1] ELSE "nil"]

\* mutant: when every lookup failed the first failure is returned
FinalReturnAllFailed(res, es) ==
    [results |-> res, err |-> IF es # <<>> /\ res = <<>> THEN es[1] ELSE "nil"]

\* return results, nil
FinalReturn(res, es) == [results |-> res, err |-> "nil"]

\* a record about an error
ErrorEvent(level, msg, err) == [level |-> level, msg |-> msg, error |-> err]

\* the concatenation of a sequence of sequences
RECURSIVE Flatten(_)
Flatten(ss) == IF ss = <<>> THEN <<>> ELSE Head(ss) \o Flatten(Tail(ss))

\* mutant: the warning is logged whenever a lookup failed
AllFailedLogAnyFailure(res, es) ==
    IF Len(es) > 0
      THEN Written(ErrorEvent("WARN", "all DNS lookups failed; logging only first error",
                              es[1]))
           \o Flatten([i \in DOMAIN es |->
                 Written(ErrorEvent("DEBUG", "debug logging all DNS lookup errors", es[i]))])
      ELSE <<>>

\* what resolve logs after the collecting loop
AllFailedLog(res, es) ==
    IF Len(es) > 0 /\ Len(res) = 0
      THEN Written(ErrorEvent("WARN", "all DNS lookups failed; logging only first error",
                              es[1]))
           \o Flatten([i \in DOMAIN es |->
                 Written(ErrorEvent("DEBUG", "debug logging all DNS lookup errors", es[i]))])
      ELSE <<>>

\* the deferred cancel()
Cancel(e) == IF e = "nil" THEN "Canceled" ELSE e

\* mutant: a mapping that arrives after a failure is counted and discarded
CollectMappingUnlessFailed ==
    /\ pc = "collect"
    /\ Collected < LoopCount(hostnames)
    /\ mappings # <<>>
    /\ IF errs = <<>>
         THEN results' = Append(results, Head(mappings)) /\ UNCHANGED errs
         ELSE errs' = Append(errs, Head(errs)) /\ UNCHANGED results
    /\ mappings' = Tail(mappings)
    /\ UNCHANGED outerVars
    /\ UNCHANGED <<pc, resolveLog, leftover, hostnames, timeout, ctxErr, worker, errors,
                   ret, pendingAtDeadline, lateFwd, revFailed, revCancelled, cut>>

\* mutant: the mapping is read but stays at the head of the channel
CollectMappingPeek ==
    /\ pc = "collect"
    /\ Collected < LoopCount(hostnames)
    /\ mappings # <<>>
    /\ results' = Append(results, Head(mappings))
    /\ UNCHANGED outerVars
    /\ UNCHANGED <<pc, resolveLog, leftover, hostnames, timeout, ctxErr, worker, mappings, errors, errs,
                   ret, pendingAtDeadline, lateFwd, revFailed, revCancelled, cut>>

\* case result := <-mappings
CollectMapping ==
    /\ pc = "collect"
    /\ Collected < LoopCount(hostnames)
    /\ mappings # <<>>
    /\ results' = Append(results, Head(mappings))
    /\ mappings' = Tail(mappings)
    /\ UNCHANGED outerVars
    /\ UNCHANGED <<pc, resolveLog, leftover, hostnames, timeout, ctxErr, worker, errors, errs,
                   ret, pendingAtDeadline, lateFwd, revFailed, revCancelled, cut>>

\* mutant: the first failure cancels the context, as an errgroup would
CollectErrorCancels ==
    /\ pc = "collect"
    /\ Collected < LoopCount(hostnames)
    /\ errors # <<>>
    /\ errs' = Append(errs, Head(errors))
    /\ errors' = Tail(errors)
    /\ ctxErr' = IF ctxErr = "nil" THEN "Canceled" ELSE ctxErr
    /\ UNCHANGED outerVars
    /\ UNCHANGED <<pc, resolveLog, leftover, hostnames, timeout, worker, mappings,
                   results, ret, pendingAtDeadline, lateFwd, revFailed, revCancelled, cut>>

\* case err := <-errors
CollectError ==
    /\ pc = "collect"
    /\ Collected < LoopCount(hostnames)
    /\ errors # <<>>
    /\ errs' = Append(errs, Head(errors))
    /\ errors' = Tail(errors)
    /\ UNCHANGED outerVars
    /\ UNCHANGED <<pc, resolveLog, leftover, hostnames, timeout, ctxErr, worker, mappings,
                   results, ret, pendingAtDeadline, lateFwd, revFailed, revCancelled, cut>>

\* case <-ctx.Done()
CollectDone ==
    /\ pc = "collect"
    /\ Collected < LoopCount(hostnames)
    /\ Done
    /\ ret' = DeadlineReturn(results, ctxErr)
    /\ ctxErr' = Cancel(ctxErr)
    /\ pc' = "returned"
    /\ cut' = TRUE
    /\ UNCHANGED outerVars
    /\ UNCHANGED <<resolveLog, leftover, hostnames, timeout, worker, mappings, errors, results,
                   errs, pendingAtDeadline, lateFwd, revFailed, revCancelled>>

\* the loop is over: return results, nil
ReturnResults ==
    /\ pc = "collect"
    /\ Collected >= LoopCount(hostnames)
    /\ ret' = FinalReturn(results, errs)
    /\ resolveLog' = AllFailedLog(results, errs)
    /\ ctxErr' = Cancel(ctxErr)
    /\ pc' = "returned"
    /\ cut' = FALSE
    /\ UNCHANGED outerVars
    /\ UNCHANGED <<leftover, hostnames, timeout, worker, mappings, errors, results,
                   errs, pendingAtDeadline, lateFwd, revFailed, revCancelled>>

Collector == CollectMapping \/ CollectError \/ CollectDone \/ ReturnResults

Next ==
    \/ \E hs \in HostnameLists, t \in Timeouts : ResolveCall(hs, t)
    \/ DeadlineElapses
    \/ \E w \in Workers, a \in IPAddrAnswers : ForwardLookupOk(w, a)
    \/ \E w \in Workers : ForwardLookupErr(w)
    \/ \E w \in Workers, ok \in BOOLEAN : ReverseLookupReturn(w, ok)
    \/ CollectMapping
    \/ CollectError
    \/ CollectDone
    \/ ReturnResults

Spec == Init /\ [][Next]_vars

\* The Go scheduler runs every runnable goroutine and the runtime fires the
\* context's timer: the collector and the clock are not starved.  Nothing
\* makes a lookup return.  Every step of the collector changes pc, results or
\* errs and the firing of the timer changes ctxErr, so these subscripts give
\* the same conditions as the subscript vars.
LiveSpec == Spec /\ WF_<<pc, results, errs>>(Collector) /\ WF_ctxErr(DeadlineElapses)

\* A test that captures the log: it installs a logger at debug level that
\* writes to logOutput, and calls resolve once for no, one or two hostnames.
LoggedLists == {<<>>} \cup {<<h>> : h \in Hostname}
                      \cup {<<h, k>> : h \in Hostname, k \in Hostname}

\* answers of the resolver that list an address twice, or list the addresses
\* in another order than the numeric one
UnsortedAnswers == {<<2, 1>>, <<1, 1>>}

LogInit ==
    /\ pc = "main"
    /\ ResolveIdle
    /\ file = MissingFile
    /\ OuterIdle
    /\ log = NewLogger("logOutput", SlogLevel("DEBUG"))

LogNext ==
    \/ \E hs \in LoggedLists, t \in Timeouts : ResolveCall(hs, t)
    \/ DeadlineElapses
    \/ \E w \in Workers, a \in IPAddrAnswers \cup UnsortedAnswers : ForwardLookupOk(w, a)
    \/ \E w \in Workers : ForwardLookupErr(w)
    \/ \E w \in Workers, ok \in BOOLEAN : ReverseLookupReturn(w, ok)
    \/ CollectMapping
    \/ CollectError
    \/ CollectDone
    \/ ReturnResults

LogSpec == LogInit /\ [][LogNext]_vars

\* ------------------------------------------------- vocabulary of the claims
N == Len(hostnames)

Returned == pc = "returned"

Range(s) == {s[i] : i \in DOMAIN s}

\* the multiset of the elements of a sequence
SeqToBag(s) == [x \in Range(s) |-> Cardinality({i \in DOMAIN s : s[i] = x})]

Succeeded == {w \in Workers : worker[w].fwd = "ok"}

Failed == {w \in Workers : worker[w].fwd = "fail"}

\* the mapping the forward lookup of worker w stands for
ForwardMapping(w) == [Hostname |-> hostnames[w], IPAddresses |-> worker[w].ipAddrs]

\* the multiset of the mappings of the workers whose forward lookup succeeded
ForwardMappings ==
    [m \in {ForwardMapping(w) : w \in Succeeded} |->
        Cardinality({w \in Succeeded : ForwardMapping(w) = m})]

ResultHostnames == [i \in DOMAIN ret.results |-> ret.results[i].Hostname]

\* every forward lookup has returned, and returned while the deadline had not elapsed
AllForwardInTime == ~lateFwd /\ \A w \in Workers : worker[w].fwd # "none"

\* ---------------------------------------------------------------------- C1
\* C1: if the shared deadline elapses while some worker has not yet delivered
\* its outcome, resolve returns the deadline-exceeded error and no mappings,
\* for every interleaving.
C1_DeadlineBeforeAllDelivered ==
    (Returned /\ N > 0 /\ timeout > 0 /\ pendingAtDeadline)
        => (ret.err = "DeadlineExceeded" /\ ret.results = <<>>)

\* ---------------------------------------------------------------------- C2
\* C2: with a non-empty hostname list and a timeout whose deadline has elapsed
\* before the workers start, resolve returns a non-nil deadline-exceeded error
\* and no mappings on every execution.
C2_ZeroTimeoutAlwaysFails ==
    (Returned /\ N > 0 /\ timeout = 0)
        => (ret.err = "DeadlineExceeded" /\ ret.results = <<>>)

\* ---------------------------------------------------------------------- C3
\* C3 as written: whenever every forward lookup of a non-empty list succeeded
\* before the deadline elapsed, resolve returns nil and one mapping per
\* hostname occurrence, each with a non-empty address list.
C3_Original ==
    (Returned /\ N > 0 /\ AllForwardInTime /\ Succeeded = Workers)
        => /\ ret.err = "nil"
           /\ SeqToBag(ResultHostnames) = SeqToBag(hostnames)
           /\ \A i \in DOMAIN ret.results : ret.results[i].IPAddresses # <<>>

\* C3 amended: whenever every forward lookup of a non-empty list succeeded and
\* the deadline did not cut the pass short (the collector never took the
\* ctx.Done() case), resolve returns nil and exactly one mapping per hostname
\* occurrence of the input, each with a non-empty address list.
C3_AllSucceed ==
    (Returned /\ N > 0 /\ ~cut /\ Succeeded = Workers)
        => /\ ret.err = "nil"
           /\ Len(ret.results) = N
           /\ SeqToBag(ResultHostnames) = SeqToBag(hostnames)
           /\ \A i \in DOMAIN ret.results : ret.results[i].IPAddresses # <<>>

\* a completed pass over two distinct hostnames, all forward lookups succeeded
C3_Witness ==
    /\ Returned /\ ~cut /\ N >= 2 /\ Succeeded = Workers
    /\ hostnames[1] # hostnames[2]

\* ---------------------------------------------------------------------- C4
\* C4: if M of the N hostnames (0 < M < N) fail their forward lookup, the rest
\* succeed and the deadline does not cut the pass short, resolve returns nil
\* and exactly the N-M mappings of the hostnames that succeeded.
C4_MixedOutcomes ==
    (Returned /\ ~cut /\ Failed # {} /\ Succeeded # {}
              /\ Failed \cup Succeeded = Workers)
        => /\ ret.err = "nil"
           /\ Len(ret.results) = N - Cardinality(Failed)
           /\ SeqToBag(ret.results) = ForwardMappings

C4_Witness ==
    /\ Returned /\ ~cut /\ Failed # {} /\ Succeeded # {}
    /\ Len(ret.results) = 1 /\ Len(errs) = 1

\* ---------------------------------------------------------------------- C5
\* C5 as written: whenever every hostname of a non-empty input failed its
\* forward lookup before the deadline elapsed, resolve returns an empty
\* mapping set and a nil error.
C5_Original ==
    (Returned /\ N > 0 /\ AllForwardInTime /\ Failed = Workers)
        => (ret.err = "nil" /\ ret.results = <<>>)

\* C5 amended: whenever every hostname of a non-empty input failed its forward
\* lookup and the deadline did not cut the pass short, resolve returns an
\* empty mapping set and a nil error.
C5_AllFail ==
    (Returned /\ N > 0 /\ ~cut /\ Failed = Workers)
        => (ret.err = "nil" /\ ret.results = <<>>)

C5_Witness == Returned /\ ~cut /\ N >= 2 /\ Failed = Workers /\ Len(errs) = N

\* ---------------------------------------------------------------------- C6
\* C6: for an empty hostname list resolve returns an empty mapping set and a
\* nil error whatever the timeout (an expired one included); no worker is
\* started, so no lookup is made and nothing is ever put on a channel.
C6_EmptyInput ==
    (pc # "main" /\ N = 0)
        => /\ Workers = {}
           /\ mappings = <<>> /\ errors = <<>>
           /\ Returned => (ret.err = "nil" /\ ret.results = <<>>)

C6_Witness == Returned /\ N = 0 /\ timeout = 0 /\ ret.err = "nil"

\* ---------------------------------------------------------------------- C7
\* C7: the only non-nil error resolve returns is the context's deadline
\* exceeded error, and only once the deadline has elapsed; the error of a
\* forward lookup is never the error of the pass.
C7_OnlyDeadlineError ==
    Returned
        => /\ ret.err \in {"nil", "DeadlineExceeded"}
           /\ ret.err = "DeadlineExceeded" => ctxErr = "DeadlineExceeded"
           /\ \A w \in Workers : ret.err # LookupError(worker[w].hostname)

\* a pass in which every hostname failed and the failures were collected
C7_Witness == Returned /\ N >= 2 /\ Len(errs) = N /\ ret.err = "nil"

C9_NoPartialResults ==
    (Returned /\ ret.err # "nil") => ret.results = <<>>

C9_Witness == Returned /\ ret.err # "nil" /\ results # <<>>

\* --------------------------------------------------------------------- C10
\* C10: every pass terminates: once entered, resolve eventually returns, also
\* when workers never get an answer to their lookup.
C10_Terminates == (pc = "collect") ~> (pc = "returned")

\* resolve has returned while a worker is still waiting for its forward lookup
C10_Witness == Returned /\ \E w \in Workers : worker[w].st = "lookup"

\* --------------------------------------------------------------------- C11
\* the workers that have sent their outcome
DeliveredWorkers == {w \in Workers : Delivered(w)}

\* C11: in every state of a pass the outcomes produced by the workers, those
\* still in a channel and those already collected together, are at most as
\* many as the input hostnames, and the engine has collected no more outcomes
\* than workers have produced.
C11_OutcomesBounded ==
    pc # "main"
        => /\ Len(mappings) + Len(errors) + Collected <= N
           /\ Cardinality(DeliveredWorkers) <= N
           /\ Collected <= Cardinality(DeliveredWorkers)

\* every worker has produced; one outcome is collected, another still buffered
C11_Witness ==
    /\ N >= 2 /\ Cardinality(DeliveredWorkers) = N
    /\ Collected >= 1 /\ Len(mappings) + Len(errors) >= 1

\* --------------------------------------------------------------------- C12
\* occurrences of a hostname in the input
Occurrences(h) == Cardinality({i \in DOMAIN hostnames : hostnames[i] = h})

\* C12: a hostname occurring k times in the input gets k workers of its own,
\* and a pass the deadline does not cut short has collected exactly k
\* outcomes for it (k mappings when all its lookups succeeded).
C12_NoDeduplication ==
    pc # "main"
        => \A h \in Range(hostnames) :
              /\ Cardinality({w \in Workers : worker[w].hostname = h}) = Occurrences(h)
              /\ (Returned /\ ~cut)
                    => /\ Cardinality({i \in DOMAIN ret.results : ret.results[i].Hostname = h})
                          + Cardinality({i \in DOMAIN errs : errs[i] = LookupError(h)})
                            = Occurrences(h)
                       /\ (\A w \in Workers : hostnames[w] = h => worker[w].fwd = "ok")
                             => Cardinality({i \in DOMAIN ret.results :
                                               ret.results[i].Hostname = h}) = Occurrences(h)

\* a completed pass over a list that names one hostname twice, both resolved
C12_Witness ==
    /\ Returned /\ ~cut /\ N >= 2 /\ hostnames[1] = hostnames[2]
    /\ Cardinality({i \in DOMAIN ret.results : ret.results[i].Hostname = hostnames[1]}) >= 2

\* ===================================================================== cfg
\* Texts are sequences of one-character strings.

Digits == <<"0", "1", "2", "3", "4", "5", "6", "7", "8", "9">>

HexDigits == Digits \o <<"a", "b", "c", "d", "e", "f">>

LowerCase == <<"a", "b", "c", "d", "e", "f", "g", "h", "i", "j", "k", "l", "m",
               "n", "o", "p", "q", "r", "s", "t", "u", "v", "w", "x", "y", "z">>

UpperCase == <<"A", "B", "C", "D", "E", "F", "G", "H", "I", "J", "K", "L", "M",
               "N", "O", "P", "Q", "R", "S", "T", "U", "V", "W", "X", "Y", "Z">>

IndexOf(c, alphabet) == CHOOSE i \in DOMAIN alphabet : alphabet[i] = c

IsDigit(c) == \E i \in DOMAIN Digits : Digits[i] = c

IsAlphaNum(c) ==
    \/ IsDigit(c)
    \/ \E i \in DOMAIN LowerCase : LowerCase[i] = c
    \/ \E i \in DOMAIN UpperCase : UpperCase[i] = c

\* string(s): the Go string of a text
RECURSIVE Str(_)
Str(t) == IF t = <<>> THEN "" ELSE t[1] \o Str(Tail(t))

\* strings.Split(t, sep) for a one-character separator
RECURSIVE Split(_, _)
Split(t, sep) ==
    IF \E i \in DOMAIN t : t[i] = sep
      THEN LET i == CHOOSE j \in DOMAIN t : t[j] = sep /\ \A k \in 1..(j - 1) : t[k] # sep
           IN  <<SubSeq(t, 1, i - 1)>> \o Split(SubSeq(t, i + 1, Len(t)), sep)
      ELSE <<t>>

\* value of a text of decimal digits
RECURSIVE Atoi(_)
Atoi(t) == IF t = <<>> THEN 0 ELSE 10 * Atoi(SubSeq(t, 1, Len(t) - 1)) + (IndexOf(t[Len(t)], Digits) - 1)

\* strconv.Itoa for n >= 0
RECURSIVE Itoa(_)
Itoa(n) == IF n < 10 THEN <<Digits[n + 1]>> ELSE Itoa(n \div 10) \o <<Digits[(n % 10) + 1]>>

\* validate.Var(s, "hostname_rfc1123") succeeds: s is dot-separated labels of
\* 1 to 63 characters, letters, digits and hyphens, none starting with a
\* hyphen (the pattern of go-playground/validator for this tag)
IsHostnameRFC1123(t) ==
    \A l \in {Split(t, ".")[i] : i \in DOMAIN Split(t, ".")} :
        /\ Len(l) \in 1..63
        /\ IsAlphaNum(l[1])
        /\ \A i \in DOMAIN l : IsAlphaNum(l[i]) \/ l[i] = "-"

\* JSON values: a kind and, for strings and numbers, the text
JString(t) == [kind |-> "string", text |-> t]

JNumber(t) == [kind |-> "number", text |-> t]

JObject == [kind |-> "object", text |-> <<>>]

JTrue == [kind |-> "true", text |-> <<>>]

JFalse == [kind |-> "false", text |-> <<>>]

\* bytes that are not a JSON value
JInvalid(t) == [kind |-> "invalid", text |-> t]

\* json.Unmarshal(data, &s) for var s string
JsonUnmarshalString(data) ==
    CASE data.kind = "string"  -> [s |-> data.text, err |-> "nil"]
      [] data.kind = "null"    -> [s |-> <<>>, err |-> "nil"]
      [] data.kind = "invalid" -> [s |-> <<>>, err |-> "json: syntax error"]
      [] OTHER                 -> [s |-> <<>>, err |-> "json: cannot unmarshal into string"]

\* func (h *Hostname) UnmarshalJSON(data []byte) error, with *h before and after
HostnameUnmarshalJSON(h, data) ==
    LET u == JsonUnmarshalString(data) IN
    IF u.err # "nil" THEN [h |-> h, err |-> u.err]
    ELSE IF ~IsHostnameRFC1123(u.s) THEN [h |-> h, err |-> "hostname_rfc1123"]
    ELSE [h |-> Str(u.s), err |-> "nil"]

\* time.Duration counted in milliseconds; the units the model reads
Millisecond == 1

UnitOf(u) ==
    CASE u = <<"m", "s">> -> Millisecond
      [] u = <<"s">>      -> 1000 * Millisecond
      [] u = <<"m">>      -> 60 * 1000 * Millisecond
      [] u = <<"h">>      -> 60 * 60 * 1000 * Millisecond
      [] OTHER            -> 0

\* length of the longest prefix of t whose characters satisfy IsDigit (if
\* digits) or do not (if ~digits)
RECURSIVE PrefixLen(_, _)
PrefixLen(t, digits) ==
    IF t = <<>> \/ IsDigit(t[1]) # digits THEN 0 ELSE 1 + PrefixLen(Tail(t), digits)

\* the loop of time.ParseDuration over "<digits><unit>" groups: [d, ok]
RECURSIVE ParseGroups(_)
ParseGroups(t) ==
    IF t = <<>> THEN [d |-> 0, ok |-> TRUE]
    ELSE LET nd   == PrefixLen(t, TRUE)
             r    == SubSeq(t, nd + 1, Len(t))
             nu   == PrefixLen(r, FALSE)
             unit == UnitOf(SubSeq(r, 1, nu))
             more == ParseGroups(SubSeq(r, nu + 1, Len(r)))
         IN  IF nd = 0 \/ nu = 0 \/ unit = 0 \/ ~more.ok
               THEN [d |-> 0, ok |-> FALSE]
               ELSE [d |-> Atoi(SubSeq(t, 1, nd)) * unit + more.d, ok |-> TRUE]

\* time.ParseDuration(s) for unsigned texts without fractions
ParseDuration(t) ==
    IF t = <<"0">> THEN [dur |-> 0, err |-> "nil"]
    ELSE IF t = <<>> \/ ~ParseGroups(t).ok THEN [dur |-> 0, err |-> "time: invalid duration"]
    ELSE [dur |-> ParseGroups(t).d, err |-> "nil"]

\* func (d *Duration) UnmarshalJSON(data []byte) error, with *d before and after
DurationUnmarshalJSON(d, data) ==
    LET u == JsonUnmarshalString(data) IN
    IF u.err # "nil" THEN [d |-> d, err |-> u.err]
    ELSE [d |-> ParseDuration(u.s).dur, err |-> ParseDuration(u.s).err]

\* slog.Level values by name
LevelOf(name) ==
    CASE name = <<"D", "E", "B", "U", "G">> -> -4
      [] name = <<"I", "N", "F", "O">>      -> 0
      [] name = <<"W", "A", "R", "N">>      -> 4
      [] name = <<"E", "R", "R", "O", "R">> -> 8
      [] OTHER                              -> 1

\* strings.ToUpper
ToUpper(t) ==
    [i \in DOMAIN t |->
        IF \E k \in DOMAIN LowerCase : LowerCase[k] = t[i]
          THEN UpperCase[IndexOf(t[i], LowerCase)] ELSE t[i]]

\* func (l *Level) UnmarshalJSON of log/slog, for names without offset
LevelUnmarshalJSON(l, data) ==
    IF data.kind # "string" THEN [l |-> l, err |-> "invalid syntax"]
    ELSE IF LevelOf(ToUpper(data.text)) = 1 THEN [l |-> l, err |-> "slog: unknown name"]
    ELSE [l |-> LevelOf(ToUpper(data.text)), err |-> "nil"]

\* decoding a JSON value into a bool
BoolUnmarshal(b, data) ==
    CASE data.kind = "true"  -> [b |-> TRUE, err |-> "nil"]
      [] data.kind = "false" -> [b |-> FALSE, err |-> "nil"]
      [] data.kind = "null"  -> [b |-> b, err |-> "nil"]
      [] OTHER               -> [b |-> b, err |-> "json: cannot unmarshal into bool"]

\* ------------------------------------------------------------------ net.IP
\* An IP address is its family and its words: 4 octets or 8 groups of 16 bits;
\* the nil address has family 0.
NilIP == [v |-> 0, w |-> <<>>]

IsHexDigit(c) == \E i \in DOMAIN HexDigits : HexDigits[i] = c

\* value of a text of lower-case hexadecimal digits
RECURSIVE Hextoi(_)
Hextoi(t) ==
    IF t = <<>> THEN 0
    ELSE 16 * Hextoi(SubSeq(t, 1, Len(t) - 1)) + (IndexOf(t[Len(t)], HexDigits) - 1)

\* lower-case hexadecimal text of n >= 0, without leading zeros
RECURSIVE Itox(_)
Itox(n) == IF n < 16 THEN <<HexDigits[n + 1]>> ELSE Itox(n \div 16) \o <<HexDigits[(n % 16) + 1]>>

\* a decimal octet without leading zero
IsOctet(t) ==
    /\ Len(t) \in 1..3
    /\ \A i \in DOMAIN t : IsDigit(t[i])
    /\ (Len(t) > 1 => t[1] # "0")
    /\ Atoi(t) <= 255

\* a group of one to four hexadecimal digits
IsGroup(t) == Len(t) \in 1..4 /\ \A i \in DOMAIN t : IsHexDigit(t[i])

\* the groups of one side of "::" (none for an empty side)
Groups(t) == IF t = <<>> THEN <<>> ELSE Split(t, ":")

\* positions where "::" starts
Ellipses(t) == {i \in 1..(Len(t) - 1) : t[i] = ":" /\ t[i + 1] = ":"}

\* net.ParseIP for dotted IPv4 and for IPv6 in lower-case hexadecimal
\* (no zone, no embedded IPv4); NilIP when the text is no address
ParseIP(t) ==
    IF \E i \in DOMAIN t : t[i] = ":"
      THEN IF Ellipses(t) = {}
             THEN LET g == Split(t, ":") IN
                  IF Len(g) = 8 /\ \A i \in DOMAIN g : IsGroup(g[i])
                    THEN [v |-> 6, w |-> [i \in 1..8 |-> Hextoi(g[i])]]
                    ELSE NilIP
           ELSE IF Cardinality(Ellipses(t)) = 1
             THEN LET e == CHOOSE i \in Ellipses(t) : TRUE
                      l == Groups(SubSeq(t, 1, e - 1))
                      r == Groups(SubSeq(t, e + 2, Len(t)))
                  IN  IF /\ Len(l) + Len(r) <= 7
                         /\ \A i \in DOMAIN l : IsGroup(l[i])
                         /\ \A i \in DOMAIN r : IsGroup(r[i])
                        THEN [v |-> 6,
                              w |-> [i \in 1..8 |->
                                       IF i <= Len(l) THEN Hextoi(l[i])
                                       ELSE IF i > 8 - Len(r) THEN Hextoi(r[i - (8 - Len(r))])
                                       ELSE 0]]
                        ELSE NilIP
           ELSE NilIP
      ELSE LET o == Split(t, ".") IN
           IF Len(o) = 4 /\ \A i \in DOMAIN o : IsOctet(o[i])
             THEN [v |-> 4, w |-> [i \in 1..4 |-> Atoi(o[i])]]
             ELSE NilIP

\* Join(ts, sep): the texts joined with a separator
RECURSIVE Join(_, _)
Join(ts, sep) ==
    IF ts = <<>> THEN <<>>
    ELSE IF Len(ts) = 1 THEN ts[1]
    ELSE ts[1] \o <<sep>> \o Join(Tail(ts), sep)

\* length of the run of zero groups starting at position i
RECURSIVE ZeroRun(_, _)
ZeroRun(w, i) == IF i > Len(w) \/ w[i] # 0 THEN 0 ELSE 1 + ZeroRun(w, i + 1)

\* func (ip IP) String() string: dotted decimal, or hexadecimal groups with
\* the first longest run of two or more zero groups written "::"
IPString(ip) ==
    CASE ip.v = 0 -> <<"<", "n", "i", "l", ">">>
      [] ip.v = 4 -> Join([i \in 1..4 |-> Itoa(ip.w[i])], ".")
      [] ip.v = 6 ->
           LET best == CHOOSE i \in 1..8 :
                          /\ \A j \in 1..8 : ZeroRun(ip.w, j) <= ZeroRun(ip.w, i)
                          /\ \A j \in 1..(i - 1) : ZeroRun(ip.w, j) < ZeroRun(ip.w, i)
               n    == ZeroRun(ip.w, best)
               hex  == [i \in 1..8 |-> Itox(ip.w[i])]
           IN  IF n < 2 THEN Join(hex, ":")
               ELSE Join(SubSeq(hex, 1, best - 1), ":") \o <<":", ":">>
                      \o Join(SubSeq(hex, best + n, 8), ":")

\* func (ip *IP) UnmarshalText, reached for a JSON string; JSON null gives nil
IPUnmarshal(ip, data) ==
    CASE data.kind = "null" -> [ip |-> NilIP, err |-> "nil"]
      [] data.kind = "string" ->
           IF data.text = <<>> THEN [ip |-> NilIP, err |-> "nil"]
           ELSE IF ParseIP(data.text) = NilIP THEN [ip |-> ip, err |-> "invalid IP address"]
           ELSE [ip |-> ParseIP(data.text), err |-> "nil"]
      [] OTHER -> [ip |-> ip, err |-> "json: cannot unmarshal into net.IP"]

\* net.JoinHostPort
JoinHostPort(host, port) ==
    IF \E i \in DOMAIN host : host[i] = ":"
      THEN <<"[">> \o host \o <<"]", ":">> \o port
      ELSE host \o <<":">> \o port

\* --------------------------------------------------------------- cfg.Load
RECURSIVE DecodeIPs(_)
\* decoding a JSON array into []net.IP, up to the first error
DecodeIPs(vals) ==
    IF vals = <<>> THEN [v |-> <<>>, err |-> "nil"]
    ELSE LET d == IPUnmarshal(NilIP, vals[1]) IN
         IF d.err # "nil" THEN [v |-> <<>>, err |-> d.err]
         ELSE [v |-> <<d.ip>> \o DecodeIPs(Tail(vals)).v, err |-> DecodeIPs(Tail(vals)).err]

RECURSIVE DecodeHostnames(_)
\* decoding a JSON array into []Hostname, up to the first error
DecodeHostnames(vals) ==
    IF vals = <<>> THEN [v |-> <<>>, err |-> "nil"]
    ELSE LET d == HostnameUnmarshalJSON("", vals[1]) IN
         IF d.err # "nil" THEN [v |-> <<>>, err |-> d.err]
         ELSE [v |-> <<d.h>> \o DecodeHostnames(Tail(vals)).v,
               err |-> DecodeHostnames(Tail(vals)).err]

\* json.Unmarshal(data, &p) for a well-formed document: the members are
\* decoded in the order of the struct and the first error ends the decoding
ParamsUnmarshal(p, doc) ==
    LET r == DecodeIPs(doc.dnsResolvers)
        h == DecodeHostnames(doc.hostnames)
        t == DurationUnmarshalJSON(p.Timeout, doc.timeout)
        i == DurationUnmarshalJSON(p.ScanInterval, doc.scanInterval)
        l == LevelUnmarshalJSON(p.LogLevel, doc.logLevel)
        b == BoolUnmarshal(p.LogAddSource, doc.logAddSource)
        e == <<r.err, h.err, t.err, i.err, l.err, b.err>>
        Reached(k) == \A j \in 1..(k - 1) : e[j] = "nil"
    IN  [params |-> [DNSresolvers |-> IF Reached(1) THEN r.v ELSE p.DNSresolvers,
                     Hostnames    |-> IF Reached(2) THEN h.v ELSE p.Hostnames,
                     Timeout      |-> IF Reached(3) THEN t.d ELSE p.Timeout,
                     ScanInterval |-> IF Reached(4) THEN i.d ELSE p.ScanInterval,
                     LogLevel     |-> IF Reached(5) THEN l.l ELSE p.LogLevel,
                     LogAddSource |-> IF Reached(6) THEN b.b ELSE p.LogAddSource],
         err |-> IF \A k \in 1..6 : e[k] = "nil" THEN "nil"
                 ELSE e[CHOOSE k \in 1..6 : e[k] # "nil" /\ Reached(k)]]

\* func loadFile(configFilePath string, p *Params) error, with *p after
LoadFile(f, p) ==
    IF ~f.exists THEN [params |-> p, err |-> "open config.json: no such file or directory"]
    ELSE IF ~f.wellFormed THEN [params |-> p, err |-> "json: syntax error"]
    ELSE ParamsUnmarshal(p, f.doc)

\* func Load() (Params, error)
Load(f) == LoadFile(f, ZeroParams)

\* ----------------------------------------------------- contents of config.json
\* two resolvers, two hostnames
TwoHostsFile ==
    [exists |-> TRUE, wellFormed |-> TRUE,
     doc |-> [dnsResolvers |-> <<JString(<<"8", ".", "8", ".", "8", ".", "8">>), JString(<<"1", ".", "1", ".", "1", ".", "1">>)>>,
          hostnames |-> <<JString(<<"a", ".", "e", "x", "a", "m", "p", "l", "e">>),
                          JString(<<"b", ".", "e", "x", "a", "m", "p", "l", "e">>)>>,
          timeout |-> JString(<<"3", "0", "s">>), scanInterval |-> JString(<<"5", "m">>),
          logLevel |-> JString(<<"i", "n", "f", "o">>), logAddSource |-> JTrue]]

\* an IPv6 resolver, one hostname, a timeout of zero
ZeroTimeoutFile ==
    [exists |-> TRUE, wellFormed |-> TRUE,
     doc |-> [dnsResolvers |-> <<JString(<<"2", "0", "0", "1", ":", "4", "8", "6", "0", ":", "4", "8", "6", "0", ":", ":", "8", "8", "8", "8">>)>>,
          hostnames |-> <<JString(<<"a", ".", "e", "x", "a", "m", "p", "l", "e">>)>>,
          timeout |-> JString(<<"0", "s">>), scanInterval |-> JString(<<"1", "h", "3", "0", "m">>),
          logLevel |-> JString(<<"D", "E", "B", "U", "G">>), logAddSource |-> JFalse]]

\* no hostname
NoHostnamesFile ==
    [exists |-> TRUE, wellFormed |-> TRUE,
     doc |-> [dnsResolvers |-> <<JString(<<"8", ".", "8", ".", "8", ".", "8">>)>>,
          hostnames |-> <<>>,
          timeout |-> JString(<<"3", "0", "s">>), scanInterval |-> JString(<<"5", "m">>),
          logLevel |-> JString(<<"w", "a", "r", "n">>), logAddSource |-> JFalse]]

\* no resolver
NoResolversFile ==
    [exists |-> TRUE, wellFormed |-> TRUE,
     doc |-> [dnsResolvers |-> <<>>,
          hostnames |-> <<JString(<<"a", ".", "e", "x", "a", "m", "p", "l", "e">>)>>,
          timeout |-> JString(<<"3", "0", "s">>), scanInterval |-> JString(<<"5", "m">>),
          logLevel |-> JString(<<"i", "n", "f", "o">>), logAddSource |-> JFalse]]

\* a scan interval of zero
ZeroIntervalFile ==
    [exists |-> TRUE, wellFormed |-> TRUE,
     doc |-> [dnsResolvers |-> <<JString(<<"8", ".", "8", ".", "8", ".", "8">>)>>,
          hostnames |-> <<>>,
          timeout |-> JString(<<"3", "0", "s">>), scanInterval |-> JString(<<"0", "s">>),
          logLevel |-> JString(<<"i", "n", "f", "o">>), logAddSource |-> JFalse]]

\* the second hostname starts with a hyphen
BadHostnameFile ==
    [exists |-> TRUE, wellFormed |-> TRUE,
     doc |-> [dnsResolvers |-> <<JString(<<"8", ".", "8", ".", "8", ".", "8">>)>>,
          hostnames |-> <<JString(<<"a", ".", "e", "x", "a", "m", "p", "l", "e">>),
                          JString(<<"-", "b", ".", "e", "x", "a", "m", "p", "l", "e">>)>>,
          timeout |-> JString(<<"3", "0", "s">>), scanInterval |-> JString(<<"5", "m">>),
          logLevel |-> JString(<<"i", "n", "f", "o">>), logAddSource |-> JFalse]]

\* the timeout is no duration
BadTimeoutFile ==
    [exists |-> TRUE, wellFormed |-> TRUE,
     doc |-> [dnsResolvers |-> <<JString(<<"8", ".", "8", ".", "8", ".", "8">>)>>,
          hostnames |-> <<JString(<<"a", ".", "e", "x", "a", "m", "p", "l", "e">>)>>,
          timeout |-> JString(<<"i", "n", "v", "a", "l", "i", "d">>), scanInterval |-> JString(<<"5", "m">>),
          logLevel |-> JString(<<"i", "n", "f", "o">>), logAddSource |-> JFalse]]

\* the scan interval has no unit
BadIntervalFile ==
    [exists |-> TRUE, wellFormed |-> TRUE,
     doc |-> [dnsResolvers |-> <<JString(<<"8", ".", "8", ".", "8", ".", "8">>)>>,
          hostnames |-> <<JString(<<"a", ".", "e", "x", "a", "m", "p", "l", "e">>)>>,
          timeout |-> JString(<<"3", "0", "s">>), scanInterval |-> JString(<<"3", "0">>),
          logLevel |-> JString(<<"i", "n", "f", "o">>), logAddSource |-> JFalse]]

\* bytes that are not JSON
MalformedFile == [exists |-> TRUE, wellFormed |-> FALSE, doc |-> EmptyDoc]

ValidFiles == {TwoHostsFile, ZeroTimeoutFile, NoHostnamesFile, NoResolversFile, ZeroIntervalFile}

InvalidFiles == {MissingFile, MalformedFile, BadHostnameFile, BadTimeoutFile, BadIntervalFile}

ConfigFiles == ValidFiles \cup InvalidFiles

\* ------------------------------------------------------- resolver factory
\* the DNS servers a handle is built for
DNSServers ==
    {ParseIP(<<"8", ".", "8", ".", "8", ".", "8">>),
     ParseIP(<<"2", "0", "0", "1", ":", "4", "8", "6", "0", ":", "4", "8", "6", "0", ":", ":", "8", "8", "8", "8">>),
     NilIP}

\* the timeouts a handle is built with, in milliseconds
DialTimeouts == {0, 30000}

\* what the DNS client of the net package asks its Dial function for
DialRequests ==
    [network : {"udp", "tcp"},
     address : {<<"1", "9", "2", ".", "0", ".", "2", ".", "1", ":", "5", "3">>,
                <<"[", "2", "0", "0", "1", ":", "d", "b", "8", ":", ":", "1", "]", ":", "5", "3">>,
                <<"8", ".", "8", ".", "8", ".", "8", ":", "8", "5", "3">>}]

\* mutant: the dial goes where the request says
resolverDialingRequest(dnsServer, t) ==
    [built |-> TRUE, PreferGo |-> TRUE,
     Dial |-> [req \in DialRequests |->
                 [network |-> req.network, address |-> req.address, timeout |-> t]]]

\* mutant: the factory checks the server address and returns no handle for
\* an invalid one
resolverValidating(dnsServer, t) ==
    IF dnsServer = NilIP THEN NoResolver
    ELSE [built |-> TRUE, PreferGo |-> TRUE,
          Dial |-> [req \in DialRequests |->
                      [network |-> req.network,
                       address |-> JoinHostPort(IPString(dnsServer), <<"5", "3">>),
                       timeout |-> t]]]

\* func resolver(dnsServer net.IP, timeout cfg.Duration) *net.Resolver; the
\* closure Dial captures dnsServer and timeout
resolver(dnsServer, t) ==
    [built |-> TRUE, PreferGo |-> TRUE,
     Dial |-> [req \in DialRequests |->
                 [network |-> req.network,
                  address |-> JoinHostPort(IPString(dnsServer), <<"5", "3">>),
                  timeout |-> t]]]

\* ------------------------------------------------ calls made one at a time
\* the inputs of TestHostname_UnmarshalJSON, and three more JSON values
\* that are not strings
HostnameTests == {
    [input |-> JString(<<"e", "x", "a", "m", "p", "l", "e", ".", "c", "o", "m">>),
     want |-> "example.com", wantErr |-> FALSE],
    [input |-> JString(<<"a", "p", "i", ".", "e", "x", "a", "m", "p", "l", "e", ".", "c", "o", "m">>),
     want |-> "api.example.com", wantErr |-> FALSE],
    [input |-> JString(<<"m", "y", "-", "s", "e", "r", "v", "e", "r", ".", "e", "x", "a", "m", "p", "l", "e", ".", "c", "o", "m">>),
     want |-> "my-server.example.com", wantErr |-> FALSE],
    [input |-> JString(<<"1", "9", "2", ".", "1", "6", "8", ".", "1", ".", "1">>),
     want |-> "", wantErr |-> TRUE],
    [input |-> JString(<<>>),
     want |-> "", wantErr |-> TRUE],
    [input |-> JString(<<"e", "x", "a", "m", "p", "l", "e", " ", ".", "c", "o", "m">>),
     want |-> "", wantErr |-> TRUE],
    [input |-> JString(<<"-", "e", "x", "a", "m", "p", "l", "e", ".", "c", "o", "m">>),
     want |-> "", wantErr |-> TRUE],
    [input |-> JInvalid(<<"e", "x", "a", "m", "p", "l", "e", ".", "c", "o", "m">>),
     want |-> "", wantErr |-> TRUE],
    [input |-> JInvalid(<<"{", "b", "r", "o", "k", "e", "n", ":", " ", "j", "s", "o", "n", "}">>),
     want |-> "", wantErr |-> TRUE],
    [input |-> JNumber(<<"1", "2", "3">>), want |-> "", wantErr |-> TRUE],
    [input |-> JObject, want |-> "", wantErr |-> TRUE],
    [input |-> JTrue, want |-> "", wantErr |-> TRUE],
    [input |-> JNull, want |-> "", wantErr |-> TRUE]}

HostnameInputs == {tt.input : tt \in HostnameTests}

\* json.Unmarshal(data, &h) on a Hostname that holds the result of the
\* previous call
UnitHostname(data) ==
    /\ pc = "main"
    /\ LET old == IF hostnameCall.called THEN hostnameCall.h ELSE ""
           r   == HostnameUnmarshalJSON(old, data)
       IN  hostnameCall' = [called |-> TRUE, data |-> data, old |-> old,
                            h |-> r.h, err |-> r.err]
    /\ UNCHANGED <<log, file, config, loadErr, netResolver, dialed, tickerC, runLog, cursor,
                   probes, conn, events, dialFailed>>
    /\ UNCHANGED resolveVars

\* resolver(dnsServer, timeout), the two arguments kept as a configuration
UnitResolver(dnsServer, t) ==
    /\ pc = "main"
    /\ config' = [ZeroParams EXCEPT !.DNSresolvers = <<dnsServer>>, !.Timeout = t]
    /\ netResolver' = resolver(dnsServer, t)
    /\ dialed' = NoDial
    /\ UNCHANGED <<log, file, loadErr, tickerC, runLog, cursor,
                   probes, conn, events, dialFailed, hostnameCall>>
    /\ UNCHANGED resolveVars

\* position of the last colon of a text, 0 if there is none
LastColon(t) ==
    IF \E i \in DOMAIN t : t[i] = ":"
      THEN CHOOSE i \in DOMAIN t : t[i] = ":" /\ \A j \in (i + 1)..Len(t) : t[j] # ":"
      ELSE 0

\* net.SplitHostPort: "host:port" or "[host]:port"
SplitHostPort(hostport) ==
    LET i == LastColon(hostport) IN
    IF i = 0 THEN [host |-> <<>>, port |-> <<>>, err |-> "missing port in address"]
    ELSE IF hostport[1] = "["
      THEN IF i > 2 /\ hostport[i - 1] = "]"
             THEN [host |-> SubSeq(hostport, 2, i - 2),
                   port |-> SubSeq(hostport, i + 1, Len(hostport)), err |-> "nil"]
             ELSE [host |-> <<>>, port |-> <<>>, err |-> "missing ']' in address"]
    ELSE IF \E j \in 1..(i - 1) : hostport[j] = ":"
      THEN [host |-> <<>>, port |-> <<>>, err |-> "too many colons in address"]
    ELSE [host |-> SubSeq(hostport, 1, i - 1),
          port |-> SubSeq(hostport, i + 1, Len(hostport)), err |-> "nil"]

\* dialer.DialContext on an address whose host is no IP literal looks the host
\* up as a name; "<nil>" is no domain name and the dial fails with this error.
\* For an IP literal the error is nil here: the outcome is the network's.
AddressError(address) ==
    LET to == SplitHostPort(address) IN
    IF to.err # "nil" THEN to.err
    ELSE IF ParseIP(to.host) = NilIP THEN "no such host"
    ELSE "nil"

\* a lookup through the handle calls its Dial
UnitDial(req) ==
    /\ pc = "main"
    /\ netResolver.built
    /\ dialed' = [made |-> TRUE, request |-> req, conn |-> netResolver.Dial[req],
                  err |-> AddressError(netResolver.Dial[req].address)]
    /\ UNCHANGED <<log, file, config, loadErr, netResolver, tickerC, runLog, cursor,
                   probes, conn, events, dialFailed, hostnameCall>>
    /\ UNCHANGED resolveVars

UnitNext ==
    \/ \E data \in HostnameInputs : UnitHostname(data)
    \/ \E dnsServer \in DNSServers, t \in DialTimeouts : UnitResolver(dnsServer, t)
    \/ \E req \in DialRequests : UnitDial(req)

UnitSpec == Init /\ [][UnitNext]_vars

\* --------------------------------------------------------------------- C18
\* C18: a handle built by the factory has PreferGo true and a Dial function,
\* and every dial made through it goes to the configured DNS server on port
\* 53, with the configured timeout and the requested network, whatever
\* address the request names, for IPv4 and IPv6 servers alike.
C18_DialsConfiguredServer ==
    /\ netResolver.built
          => /\ netResolver.PreferGo
             /\ DOMAIN netResolver.Dial = DialRequests
    /\ dialed.made
          => LET to == SplitHostPort(dialed.conn.address) IN
             /\ to.err = "nil"
             /\ ParseIP(to.host) = config.DNSresolvers[1]
             /\ to.port = <<"5", "3">>
             /\ dialed.conn.timeout = config.Timeout
             /\ dialed.conn.network = dialed.request.network

\* a dial through a handle for the IPv6 server, asked for another address
C18_Witness ==
    /\ dialed.made
    /\ config.DNSresolvers[1].v = 6
    /\ dialed.request.address # dialed.conn.address
    /\ dialed.request.network = "tcp"

\* --------------------------------------------------------------------- C20
\* C20: decoding a Hostname accepts a JSON string in RFC-1123 host syntax
\* and yields exactly that string; it rejects with an error a bare IP
\* literal, an empty string, a string with whitespace, a string starting
\* with a hyphen and every JSON value that is not a string, and a rejection
\* leaves the target as it was.
C20_HostnameDecoding ==
    hostnameCall.called
        => \A tt \in HostnameTests :
              tt.input = hostnameCall.data
                 => /\ (hostnameCall.err # "nil") = tt.wantErr
                    /\ ~tt.wantErr => hostnameCall.h = tt.want
                    /\ tt.wantErr => hostnameCall.h = hostnameCall.old

\* ==================================================================== main
\* longest certificate chain a server presents
MaxChain == 2

\* DER bytes of the certificate at a position of the presented chain
CertAt(i) == [Raw |-> "der" \o Str(Itoa(i))]

\* state.PeerCertificates of a connection: none, or a leaf and intermediates
Chains == {[i \in 1..n |-> CertAt(i)] : n \in 0..MaxChain}

\* what tls.DialWithDialer returns: an error or a connection with a chain
DialOutcomes == {[ok |-> FALSE, chain |-> <<>>]} \cup {[ok |-> TRUE, chain |-> c] : c \in Chains}

\* hex.EncodeToString(sha256.Sum256(raw)): a digest, one per input
Sha256Hex(raw) == "sha256(" \o raw \o ")"

\* context.WithTimeout(ctx, time.Duration(timeout)) as resolve is modelled:
\* 0 for a context born expired, 1 for one whose timer fires later
AsTimeout(d) == IF d <= 0 THEN 0 ELSE 1

LogEvent(level, msg) == [level |-> level, msg |-> msg]

\* mutant: os.Exit is missing
LoadConfigExitMissing(l) == "run"

\* loadConfig: where main goes after cfg.Load returned l
LoadConfigExit(l) == IF l.err # "nil" THEN "exit1" ELSE "run"

\* what cfg.Load returns for each content of config.json
Loaded == [f \in ConfigFiles |-> Load(f)]

\* config := loadConfig()
LoadConfig ==
    /\ pc = "start"
    /\ LET l == Loaded[file] IN
       /\ loadErr' = l.err
       /\ pc' = LoadConfigExit(l)
       /\ config' = IF l.err # "nil" THEN config ELSE l.params
       /\ log' = IF l.err # "nil" THEN log ELSE NewLogger("os.Stdout", l.params.LogLevel)
       /\ runLog' = IF l.err # "nil"
                      THEN <<LogEvent("ERROR", "failed to load configuration parameters")>>
                      ELSE <<LogEvent("INFO", "application configuration loaded")>>
    /\ UNCHANGED <<file, netResolver, dialed, tickerC, cursor, probes, conn, events,
                   dialFailed, hostnameCall>>
    /\ UNCHANGED passVars

\* mutant: the handle is built for the last entry of the list
RunStartLastResolver ==
    /\ pc = "run"
    /\ IF config.DNSresolvers = <<>>
         THEN /\ pc' = "panic"
              /\ UNCHANGED netResolver
         ELSE /\ pc' = "main"
              /\ netResolver' = resolver(config.DNSresolvers[Len(config.DNSresolvers)],
                                         config.Timeout)
    /\ runLog' = <<>>
    /\ cursor' = FirstCursor
    /\ probes' = <<>>
    /\ events' = <<>>
    /\ dialFailed' = FALSE
    /\ UNCHANGED <<log, file, config, loadErr, dialed, tickerC, conn, hostnameCall>>
    /\ UNCHANGED passVars

\* run() is entered: netResolver := resolver(config.DNSresolvers[0], config.Timeout);
\* indexing an empty slice panics
RunStart ==
    /\ pc = "run"
    /\ IF config.DNSresolvers = <<>>
         THEN /\ pc' = "panic"
              /\ UNCHANGED netResolver
         ELSE /\ pc' = "main"
              /\ netResolver' = resolver(config.DNSresolvers[1], config.Timeout)
    /\ runLog' = <<>>
    /\ cursor' = FirstCursor
    /\ probes' = <<>>
    /\ events' = <<>>
    /\ dialFailed' = FALSE
    /\ UNCHANGED <<log, file, config, loadErr, dialed, tickerC, conn, hostnameCall>>
    /\ UNCHANGED passVars

\* the end of `for _, mapping := range nameAddressMappings`
EndCursor(res) == [m |-> Len(res) + 1, a |-> 1]

\* the first position at or after c that names an address
RECURSIVE Settle(_, _)
Settle(res, c) ==
    IF c.m > Len(res) THEN EndCursor(res)
    ELSE IF c.a <= Len(res[c.m].IPAddresses) THEN c
    ELSE Settle(res, [m |-> c.m + 1, a |-> 1])

\* mutant: only the first address of each mapping is probed
AdvanceToNextMapping(res, c) == Settle(res, [m |-> c.m + 1, a |-> 1])

\* the two range loops step to the next address
Advance(res, c) == Settle(res, [m |-> c.m, a |-> c.a + 1])

\* mutant: a failed dial ends the scan
AfterDialErrorAbort(res, c) == EndCursor(res)

\* certificates returns after a failed dial: the loops go on
AfterDialError(res, c) == Advance(res, c)

\* where main is after a call of certificates returned
AfterProbe(res, c) == IF c.m > Len(res) THEN "ran" ELSE "probe"

\* mutant: a failed or empty pass is retried at once
AfterFailedPassRetry == "run"

\* `return` of run() after a warning
AfterFailedPass == "ran"

\* run() after resolve returned
RunCheck ==
    /\ pc = "returned"
    /\ IF ret.err # "nil"
         THEN /\ runLog' = Append(runLog, LogEvent("WARN", "cannot resolve IP Addresses"))
              /\ pc' = AfterFailedPass
              /\ UNCHANGED cursor
         ELSE IF Len(ret.results) = 0
           THEN /\ runLog' = Append(runLog, LogEvent("WARN", "no name to address mappings"))
                /\ pc' = AfterFailedPass
                /\ UNCHANGED cursor
           ELSE /\ runLog' = Append(runLog, LogEvent("INFO", "resolved IP addresses"))
                /\ cursor' = Settle(ret.results, FirstCursor)
                /\ pc' = AfterProbe(ret.results, cursor')
    /\ UNCHANGED <<log, file, config, loadErr, netResolver, dialed, tickerC, probes, conn,
                   events, dialFailed, hostnameCall>>
    /\ UNCHANGED passVars

\* the arguments of the call of certificates at the cursor
ProbeHostname == ret.results[cursor.m].Hostname

ProbeAddress == ret.results[cursor.m].IPAddresses[cursor.a]

\* certificates(mapping.Hostname, ipAddress, config.Timeout) up to the return
\* of tls.DialWithDialer
TlsDial(o) ==
    /\ pc = "probe"
    /\ probes' = Append(probes, [hostname |-> ProbeHostname, ipAddress |-> ProbeAddress,
                                 port |-> "443", timeout |-> config.Timeout])
    /\ IF o.ok
         THEN /\ conn' = [open |-> TRUE, chain |-> o.chain, i |-> 0]
              /\ events' = <<>>
              /\ pc' = "conn"
              /\ UNCHANGED <<cursor, dialFailed>>
         ELSE /\ events' = <<LogEvent("ERROR", "connection error")>>
              /\ dialFailed' = TRUE
              /\ cursor' = AfterDialError(ret.results, cursor)
              /\ pc' = AfterProbe(ret.results, cursor')
              /\ UNCHANGED conn
    /\ UNCHANGED <<log, file, config, loadErr, netResolver, dialed, tickerC, runLog, hostnameCall>>
    /\ UNCHANGED passVars

\* mutant: the label is decided one position late
TargetLeafAtOne(index) == IF index = 1 THEN "leaf" ELSE "intermediate"

\* c["target"]
Target(index) == IF index = 0 THEN "leaf" ELSE "intermediate"

\* func handle: the event it logs
handle(cert, index, hostname, ipAddress) ==
    [level |-> "INFO", msg |-> "certificate scanned",
     details |-> [hostname |-> hostname, ipAddress |-> ipAddress, index |-> index,
                  target |-> Target(index),
                  sha256Fingerprint |-> Sha256Hex(cert.Raw)]]

\* the event of `log.Warn("no certificates", ...)`
NoCertificates(hostname, ipAddress) ==
    [level |-> "WARN", msg |-> "no certificates", hostname |-> hostname,
     ipAddress |-> ipAddress]

\* mutant: the check of len(state.PeerCertificates) is missing, an empty
\* chain runs the loop zero times
CertificatesUnchecked ==
    /\ pc = "conn"
    /\ IF conn.i < Len(conn.chain)
         THEN /\ events' = Append(events, handle(conn.chain[conn.i + 1], conn.i,
                                                 ProbeHostname, ProbeAddress))
              /\ conn' = [conn EXCEPT !.i = @ + 1]
              /\ UNCHANGED <<pc, cursor>>
         ELSE /\ events' = events
              /\ conn' = [conn EXCEPT !.open = FALSE]
              /\ cursor' = Advance(ret.results, cursor)
              /\ pc' = AfterProbe(ret.results, cursor')
    /\ UNCHANGED <<log, file, config, loadErr, netResolver, dialed, tickerC, runLog, probes,
                   dialFailed, hostnameCall>>
    /\ UNCHANGED passVars

\* mutant: `defer conn.Close()` is missing, the connection stays open after
\* certificates returned
CertificatesLeaking ==
    /\ pc = "conn"
    /\ IF conn.i < Len(conn.chain)
         THEN /\ events' = Append(events, handle(conn.chain[conn.i + 1], conn.i,
                                                 ProbeHostname, ProbeAddress))
              /\ conn' = [conn EXCEPT !.i = @ + 1]
              /\ UNCHANGED <<pc, cursor>>
         ELSE /\ events' = IF Len(conn.chain) = 0
                             THEN <<NoCertificates(ProbeHostname, ProbeAddress)>>
                             ELSE events
              /\ conn' = conn
              /\ cursor' = Advance(ret.results, cursor)
              /\ pc' = AfterProbe(ret.results, cursor')
    /\ UNCHANGED <<log, file, config, loadErr, netResolver, dialed, tickerC, runLog, probes,
                   dialFailed, hostnameCall>>
    /\ UNCHANGED passVars

\* certificates with the connection open: one step per certificate of the
\* chain, then the return, which runs the deferred conn.Close()
Certificates ==
    /\ pc = "conn"
    /\ IF conn.i < Len(conn.chain)
         THEN /\ events' = Append(events, handle(conn.chain[conn.i + 1], conn.i,
                                                 ProbeHostname, ProbeAddress))
              /\ conn' = [conn EXCEPT !.i = @ + 1]
              /\ UNCHANGED <<pc, cursor>>
         ELSE /\ events' = IF Len(conn.chain) = 0
                             THEN <<NoCertificates(ProbeHostname, ProbeAddress)>>
                             ELSE events
              /\ conn' = [conn EXCEPT !.open = FALSE]
              /\ cursor' = Advance(ret.results, cursor)
              /\ pc' = AfterProbe(ret.results, cursor')
    /\ UNCHANGED <<log, file, config, loadErr, netResolver, dialed, tickerC, runLog, probes,
                   dialFailed, hostnameCall>>
    /\ UNCHANGED passVars

\* run() has returned: the first time main creates the ticker, and
\* time.NewTicker panics for an interval that is not positive; then main
\* blocks on ticker.C
AfterRun ==
    /\ pc = "ran"
    /\ IF tickerC = "none"
         THEN IF config.ScanInterval <= 0
                THEN pc' = "panic" /\ UNCHANGED tickerC
                ELSE pc' = "wait" /\ tickerC' = "empty"
         ELSE pc' = "wait" /\ UNCHANGED tickerC
    /\ UNCHANGED <<log, file, config, loadErr, netResolver, dialed, runLog, cursor, probes,
                   conn, events, dialFailed, hostnameCall>>
    /\ UNCHANGED passVars

\* the interval elapses: the runtime puts a tick in ticker.C, whose buffer
\* holds one, and drops the tick when the buffer is full
Tick ==
    /\ tickerC # "none"
    /\ tickerC' = "tick"
    /\ UNCHANGED <<log, file, config, loadErr, netResolver, dialed, runLog, cursor, probes,
                   conn, events, dialFailed, hostnameCall>>
    /\ UNCHANGED resolveVars

\* mutant: the loop body is `go run()`, a tick starts a cycle whatever main is
\* doing
TakeTickConcurrent ==
    /\ pc \in {"wait", "main", "collect", "returned", "probe", "conn", "ran"}
    /\ tickerC = "tick"
    /\ tickerC' = "empty"
    /\ pc' = "run"
    /\ UNCHANGED <<log, file, config, loadErr, netResolver, dialed, runLog, cursor, probes,
                   conn, events, dialFailed, hostnameCall>>
    /\ UNCHANGED passVars

\* for range ticker.C { run() }
TakeTick ==
    /\ pc = "wait"
    /\ tickerC = "tick"
    /\ tickerC' = "empty"
    /\ pc' = "run"
    /\ UNCHANGED <<log, file, config, loadErr, netResolver, dialed, runLog, cursor, probes,
                   conn, events, dialFailed, hostnameCall>>
    /\ UNCHANGED passVars

\* the process starts in a directory with some config.json, or none
MainInit ==
    /\ pc = "start"
    /\ ResolveIdle
    /\ file \in ConfigFiles
    /\ OuterIdle
    /\ log = NilLogger

\* the steps of the goroutine of main outside resolve
MainStep ==
    \/ LoadConfig
    \/ RunStart
    \/ RunCheck
    \/ \E o \in DialOutcomes : TlsDial(o)
    \/ Certificates
    \/ AfterRun
    \/ TakeTick

\* resolve(config.Hostnames, netResolver, config.Timeout)
MainResolveCall == ResolveCall(config.Hostnames, AsTimeout(config.Timeout))

MainNext ==
    \/ MainStep
    \/ MainResolveCall
    \/ Tick
    \/ DeadlineElapses
    \/ \E w \in Workers, a \in IPAddrAnswers : ForwardLookupOk(w, a)
    \/ \E w \in Workers : ForwardLookupErr(w)
    \/ \E w \in Workers, ok \in BOOLEAN : ReverseLookupReturn(w, ok)
    \/ \E l \in leftover : LeftoverDelivers(l)
    \/ Collector

MainSpec == MainInit /\ [][MainNext]_vars

\* The goroutine of main is scheduled, a dial returns within the dialer's
\* timeout, the runtime fires the timers of the context and of the ticker.
\* Nothing makes a DNS lookup return.
MainLiveSpec ==
    /\ MainSpec
    /\ WF_vars(MainStep)
    /\ WF_vars(MainResolveCall)
    /\ WF_vars(Collector)
    /\ WF_vars(DeadlineElapses)
    /\ WF_vars(Tick)

\* --------------------------------------------------------------------- C13
\* the ticker is created only after run() has returned for the first time
FirstCycleBeforeTicker ==
    [][(tickerC = "none" /\ tickerC' # "none") => (pc = "ran" /\ ret # NoReturn)]_vars

\* run() is entered once from loadConfig and then once per tick taken from
\* ticker.C
OneCyclePerTick ==
    [][(pc # "run" /\ pc' = "run")
          => \/ pc = "start"
             \/ (pc = "wait" /\ tickerC = "tick" /\ tickerC' = "empty")]_vars

\* with a configuration loaded the process is never ended by a panic
NeverPanics == [](pc # "panic")

\* with a configuration loaded run() is entered again and again
ScanCyclesRecur == []((loadErr = "nil") => <>(pc = "run"))

\* C13: the first scan cycle completes before the ticker is started, then
\* one scan cycle runs per tick forever; nothing that a scan cycle does stops
\* the loop or ends the process, so with fair ticking scan cycles happen
\* infinitely often.
C13_ScanCyclesForever ==
    /\ FirstCycleBeforeTicker
    /\ OneCyclePerTick
    /\ NeverPanics
    /\ ScanCyclesRecur

\* a configuration that names a resolver and a positive scan interval
Configured == file \notin {NoResolversFile, ZeroIntervalFile}

\* with such a configuration main never panics
NeverPanicsWhenConfigured == [](Configured => pc # "panic")

\* and run() is entered again and again
ScanCyclesRecurWhenConfigured == []((loadErr = "nil" /\ Configured) => <>(pc = "run"))

\* --------------------------------------------------------------------- C14
\* resolve returned an error or no mapping
FailedPass == ret # NoReturn /\ (ret.err # "nil" \/ Len(ret.results) = 0)

\* the warning run() logs for such a pass
FailedPassWarning ==
    IF ret.err # "nil"
      THEN LogEvent("WARN", "cannot resolve IP Addresses")
      ELSE LogEvent("WARN", "no name to address mappings")

\* C14: in a scan cycle whose pass returns an error or an empty mapping set
\* run() logs one warning and makes no TLS probe; from the return of resolve
\* main goes only to the wait on the ticker, and the next cycle starts only
\* by taking a tick.
C14_FailedPassWaitsForTick ==
    /\ []((FailedPass /\ pc \in {"ran", "wait"})
            => /\ runLog = <<FailedPassWarning>>
               /\ probes = <<>>
               /\ events = <<>>
               /\ ~conn.open)
    /\ [][(FailedPass /\ pc = "returned") => pc' \in {"returned", "ran"}]_vars
    /\ [][(FailedPass /\ pc = "ran") => pc' \in {"ran", "wait", "panic"}]_vars
    /\ [][(FailedPass /\ pc = "wait" /\ pc' # "wait")
             => (pc' = "run" /\ tickerC = "tick" /\ tickerC' = "empty")]_vars

\* a pass cut by the deadline has been logged, and main waits with a tick pending
C14_Witness ==
    /\ pc = "wait" /\ tickerC = "tick"
    /\ ret.err = "DeadlineExceeded"
    /\ runLog = <<LogEvent("WARN", "cannot resolve IP Addresses")>>

\* --------------------------------------------------------------------- C15
\* the addresses of the returned mappings, each with its mapping's hostname,
\* in the order of the mappings and of their addresses
RECURSIVE Targets(_)
Targets(res) ==
    IF res = <<>> THEN <<>>
    ELSE [a \in DOMAIN res[1].IPAddresses |->
             [hostname |-> res[1].Hostname, ipAddress |-> res[1].IPAddresses[a]]]
         \o Targets(Tail(res))

\* hostname and address of the calls of certificates made so far
Probed == [k \in DOMAIN probes |->
             [hostname |-> probes[k].hostname, ipAddress |-> probes[k].ipAddress]]

\* resolve returned mappings
GoodPass == ret # NoReturn /\ ret.err = "nil" /\ Len(ret.results) > 0

\* C15: in a scan cycle whose pass returns a non-empty mapping set, the
\* probes made so far are the first addresses of the returned mappings in
\* their order, each with its mapping's hostname; when run() has returned
\* there is exactly one probe per address; and no probe is made before
\* resolve has returned.
C15_OneProbePerAddress ==
    /\ (GoodPass /\ pc \in {"probe", "conn", "ran", "wait"})
          => /\ Len(Probed) <= Len(Targets(ret.results))
             /\ Probed = SubSeq(Targets(ret.results), 1, Len(Probed))
    /\ (GoodPass /\ pc \in {"ran", "wait"}) => Probed = Targets(ret.results)
    /\ pc \in {"main", "collect", "returned"} => (probes = <<>> /\ ~conn.open)

\* a cycle over two mappings with three addresses between them has ended
C15_Witness ==
    /\ pc = "ran" /\ GoodPass
    /\ Len(ret.results) = 2 /\ Len(probes) >= 3
    /\ ret.results[1].Hostname # ret.results[2].Hostname

\* --------------------------------------------------------------------- C16
\* a step in which a call of certificates starts and ends with no connection
FailedDialStep == pc = "probe" /\ Len(probes') = Len(probes) + 1 /\ pc' # "conn"

\* C16: a failed dial logs one error and nothing else for that address, opens
\* no connection, and the cycle goes on with the next address: at the end of
\* a cycle in which a dial failed every address has still been probed once.
C16_DialFailureSkipsOneAddress ==
    /\ [][FailedDialStep
            => /\ events' = <<LogEvent("ERROR", "connection error")>>
               /\ ~conn'.open
               /\ Len(probes') < Len(Targets(ret.results)) => pc' = "probe"
               /\ Len(probes') = Len(Targets(ret.results)) => pc' = "ran"]_vars
    /\ []((events # <<>> /\ events[1].msg = "connection error")
            => (Len(events) = 1 /\ dialFailed))
    /\ []((dialFailed /\ pc \in {"probe", "conn"})
            => Probed = SubSeq(Targets(ret.results), 1, Len(Probed)))
    /\ []((dialFailed /\ pc \in {"ran", "wait"}) => Probed = Targets(ret.results))

\* a cycle with a failed dial that went on to log a certificate of a later
\* address and has ended
C16_Witness ==
    /\ pc = "ran" /\ dialFailed
    /\ Len(probes) >= 2
    /\ events # <<>> /\ events[1].msg = "certificate scanned"

\* --------------------------------------------------------------------- C17
\* the event expected for the certificate at position k of the chain of conn,
\* presented to the last call of certificates
Scanned(k) ==
    [level |-> "INFO", msg |-> "certificate scanned",
     details |-> [hostname |-> probes[Len(probes)].hostname,
                  ipAddress |-> probes[Len(probes)].ipAddress,
                  index |-> k - 1,
                  target |-> IF k = 1 THEN "leaf" ELSE "intermediate",
                  sha256Fingerprint |-> Sha256Hex(conn.chain[k].Raw)]]

\* the current call of certificates has logged a certificate
LoggedCertificate == events # <<>> /\ events[1].msg = "certificate scanned"

\* C17: for a presented chain of n >= 1 certificates the call logs exactly n
\* 'certificate scanned' events, one per index in increasing order, each with
\* the hostname, the address, the index, the fingerprint of that certificate
\* and the label 'leaf' at index 0 and 'intermediate' at every other index.
C17_OneEventPerCertificate ==
    /\ conn.open
          => /\ Len(events) = conn.i
             /\ \A k \in DOMAIN events : events[k] = Scanned(k)
    /\ (~conn.open /\ LoggedCertificate)
          => /\ Len(events) = Len(conn.chain)
             /\ \A k \in DOMAIN events : events[k] = Scanned(k)
    /\ \A j, k \in DOMAIN conn.chain :
          j # k => Sha256Hex(conn.chain[j].Raw) # Sha256Hex(conn.chain[k].Raw)

\* a call of certificates has returned after a chain of full length
C17_Witness ==
    /\ ~conn.open /\ LoggedCertificate
    /\ Len(conn.chain) = MaxChain /\ Len(events) = MaxChain
    /\ events[MaxChain].details.target = "intermediate"

\* --------------------------------------------------------------------- C19
\* a JSON value that is a string and parses as a duration
IsDuration(v) == v.kind = "string" /\ ParseDuration(v.text).err = "nil"

\* the file is missing or malformed, or one of its hostnames fails the
\* validation, or one of its durations does not parse
Unloadable(f) ==
    \/ ~f.exists
    \/ ~f.wellFormed
    \/ \E i \in DOMAIN f.doc.hostnames :
          ~(f.doc.hostnames[i].kind = "string" /\ IsHostnameRFC1123(f.doc.hostnames[i].text))
    \/ ~IsDuration(f.doc.timeout)
    \/ ~IsDuration(f.doc.scanInterval)

\* the parameters written in TwoHostsFile
TwoHostsParams ==
    [DNSresolvers |-> <<[v |-> 4, w |-> <<8, 8, 8, 8>>], [v |-> 4, w |-> <<1, 1, 1, 1>>]>>,
     Hostnames    |-> <<"a.example", "b.example">>,
     Timeout      |-> 30 * 1000,
     ScanInterval |-> 5 * 60 * 1000,
     LogLevel     |-> 0,
     LogAddSource |-> TRUE]

\* the parameters written in ZeroTimeoutFile
ZeroTimeoutParams ==
    [DNSresolvers |-> <<[v |-> 6, w |-> <<8193, 18528, 18528, 0, 0, 0, 0, 34952>>]>>,
     Hostnames    |-> <<"a.example">>,
     Timeout      |-> 0,
     ScanInterval |-> 90 * 60 * 1000,
     LogLevel     |-> -4,
     LogAddSource |-> FALSE]

\* the files of ConfigFiles that are unloadable
UnloadableFiles == {f \in ConfigFiles : Unloadable(f)}

\* for every valid file, the resolvers Load returns print as the file writes them
ResolversAsWritten ==
    \A f \in ValidFiles :
        [i \in DOMAIN Loaded[f].params.DNSresolvers |->
            IPString(Loaded[f].params.DNSresolvers[i])]
          = [i \in DOMAIN f.doc.dnsResolvers |-> f.doc.dnsResolvers[i].text]

SendsOn(w, ch) == {i \in DOMAIN worker[w].sent : worker[w].sent[i] = ch}

\* the number of sends all workers have made on channel ch
SentOn(ch) == Cardinality({<<w, i>> \in Workers \X (1..MaxAddrs + 1) : i \in SendsOn(w, ch)})

\* C21: a worker sends nothing before its forward lookup has returned and
\* never more than one outcome; a worker whose forward lookup failed has sent
\* one error and no mapping, a worker whose goroutine has ended after a
\* successful forward lookup has sent one mapping and no error; and every item
\* of the two channels, buffered or collected, is one of these sends.
C21_OneOutcomePerWorker ==
    /\ \A w \in Workers :
         /\ Len(worker[w].sent) <= 1
         /\ worker[w].fwd = "none" => worker[w].sent = <<>>
         /\ worker[w].fwd = "fail" => worker[w].sent = <<"errors">>
         /\ worker[w].fwd = "ok" => worker[w].sent \in {<<>>, <<"mappings">>}
         /\ Delivered(w) <=> Len(worker[w].sent) = 1
    /\ Len(mappings) + Len(results) = SentOn("mappings")
    /\ Len(errors) + Len(errs) = SentOn("errors")

\* two workers have ended, one has sent an error and the other a mapping
C21_Witness ==
    \E v \in Workers, w \in Workers :
        /\ Delivered(v) /\ worker[v].sent = <<"errors">>
        /\ Delivered(w) /\ worker[w].sent = <<"mappings">>
        /\ Len(worker[w].ipAddrs) = MaxAddrs

\* --------------------------------------------------------------------- C22
\* worker w has a send ahead of it
Sending(w) == ~Delivered(w)

\* C22: neither channel ever holds more items than there are hostnames, and
\* while a worker has not delivered its outcome both channels have a free
\* slot, so its send completes at once, before and after resolve returned.
C22_SendsNeverBlock ==
    /\ Len(mappings) <= N
    /\ Len(errors) <= N
    /\ \A w \in Workers :
         Sending(w) => /\ Len(mappings) < ChanCap(hostnames)
                       /\ Len(errors) < ChanCap(hostnames)

\* resolve has returned on the deadline having collected nothing; all workers
\* but one have delivered since, their outcomes sit in the channels, and the
\* last worker has its send ahead of it
C22_Witness ==
    /\ Returned
    /\ cut
    /\ N = MaxHosts
    /\ Collected = 0
    /\ Cardinality({w \in Workers : Sending(w)}) = 1
    /\ Len(mappings) + Len(errors) = N - 1

\* --------------------------------------------------------------------- C23
\* the multiset of the errors of the workers whose forward lookup failed
ForwardErrors ==
    [e \in {LookupError(hostnames[w]) : w \in Failed} |->
        Cardinality({w \in Failed : LookupError(hostnames[w]) = e})]

\* C23: when resolve has returned a nil error, the collecting loop has made one
\* iteration per hostname, the returned mappings and the absorbed failures are
\* N together, every worker has delivered, nothing is left in either channel,
\* and the collected mappings and failures are, with multiplicity, the
\* outcomes of the workers.
C23_AllOutcomesCollected ==
    (Returned /\ ret.err = "nil") =>
        /\ Len(ret.results) + Len(errs) = N
        /\ ret.results = results
        /\ \A w \in Workers : Delivered(w) /\ Len(worker[w].sent) = 1
        /\ mappings = <<>>
        /\ errors = <<>>
        /\ SeqToBag(results) = ForwardMappings
        /\ SeqToBag(errs) = ForwardErrors

\* a nil-error return for a full list with a success and a failure collected
C23_Witness ==
    /\ Returned
    /\ ret.err = "nil"
    /\ N = MaxHosts
    /\ Len(ret.results) >= 1
    /\ Len(errs) >= 1

\* --------------------------------------------------------------------- C24
\* the forward lookup of worker w returns an error in this step
ForwardFails(w) == worker[w].fwd = "none" /\ worker'[w].fwd = "fail"

\* a worker whose forward lookup failed has ended, having sent one error and
\* nothing else, without an address and without a reverse lookup
FailedWorkerEnded ==
    \A w \in Failed :
        /\ worker[w].st = "done"
        /\ worker[w].sent = <<"errors">>
        /\ worker[w].ipAddrs = <<>>
        /\ worker[w].addresses = <<>>

\* the step in which a forward lookup fails puts the error of that lookup on
\* the error channel and nothing on the mapping channel
FailureReported ==
    \A w \in Workers :
        ForwardFails(w) => /\ errors' = Append(errors, LookupError(hostnames[w]))
                           /\ mappings' = mappings

\* a worker whose forward lookup failed takes no further step
FailedWorkerStops ==
    \A w \in Failed : worker'[w] = worker[w]

\* C24: a worker whose forward lookup fails sends the error of that lookup on
\* the error channel in the same step and ends: it never starts a reverse
\* lookup, never sends a mapping, and the errors in flight or collected are
\* exactly the lookup errors of the failed workers.
C24_FailedWorkerReportsAndStops ==
    /\ [](FailedWorkerEnded /\ SeqToBag(errors \o errs) = ForwardErrors)
    /\ [][FailureReported /\ FailedWorkerStops]_vars

\* resolve has returned, a failed worker's error is among the collected ones
\* and another worker went through its reverse lookups
C24_Witness ==
    /\ Returned
    /\ \E w \in Failed : LookupError(hostnames[w]) \in Range(errs)
    /\ \E w \in Succeeded : Delivered(w) /\ Len(worker[w].ipAddrs) = MaxAddrs

\* --------------------------------------------------------------------- C25
\* the reverse lookups of worker w that have returned: each leaves one record
ReverseReturned(w) == Len(worker[w].logged)

\* the reverse lookups worker w has called: one per address appended
ReverseCalled(w) == Len(worker[w].addresses)

\* the records of worker w are about its addresses, in address order
RecordsInOrder(w) ==
    \A i \in DOMAIN worker[w].logged :
        /\ worker[w].logged[i].addr = worker[w].ipAddrs[i]
        /\ worker[w].logged[i] \in
              {AddrEvent("WARN", "reverse lookup error", worker[w].ipAddrs[i]),
               AddrEvent("INFO", "reverse DNS lookup", worker[w].ipAddrs[i])}

\* the warnings of worker w
Warnings(w) == {i \in DOMAIN worker[w].logged : worker[w].logged[i].level = "WARN"}

\* a worker whose forward lookup succeeded calls the reverse lookups one at a
\* time in address order, and sends its mapping when the last has returned
ReverseLookupsInOrder ==
    \A w \in Succeeded :
        /\ ReverseCalled(w) <= Len(worker[w].ipAddrs)
        /\ \A i \in DOMAIN worker[w].addresses :
              worker[w].addresses[i] = worker[w].ipAddrs[i]
        /\ RecordsInOrder(w)
        /\ worker[w].st = "reverse" =>
              /\ ReverseReturned(w) = ReverseCalled(w) - 1
              /\ worker[w].sent = <<>>
        /\ worker[w].st = "done" =>
              /\ ReverseReturned(w) = Len(worker[w].ipAddrs)
              /\ ReverseCalled(w) = Len(worker[w].ipAddrs)
              /\ worker[w].sent = <<"mappings">>

\* a reverse lookup of worker w returns in this step
ReverseReturns(w) == worker[w].st = "reverse" /\ worker'[w] # worker[w]

\* when a reverse lookup returns, failed or not, the worker calls the reverse
\* lookup of the next address, or sends its mapping after the last one; a
\* reverse lookup has failed exactly if a warning was written for its address
ReverseReturnContinues ==
    \A w \in Workers :
        ReverseReturns(w) =>
            LET n == ReverseCalled(w) IN
            /\ worker'[w].logged \in
                  {Append(worker[w].logged,
                          AddrEvent("WARN", "reverse lookup error", worker[w].ipAddrs[n])),
                   Append(worker[w].logged,
                          AddrEvent("INFO", "reverse DNS lookup", worker[w].ipAddrs[n]))}
            /\ revFailed' = (revFailed \/ Warnings(w) # {i \in DOMAIN worker'[w].logged :
                                                           worker'[w].logged[i].level = "WARN"})
            /\ IF n < Len(worker[w].ipAddrs)
                 THEN /\ worker'[w].st = "reverse"
                      /\ worker'[w].addresses = Append(worker[w].addresses,
                                                       worker[w].ipAddrs[n + 1])
                      /\ mappings' = mappings
                 ELSE /\ worker'[w].st = "done"
                      /\ Len(mappings') = Len(mappings) + 1
            /\ errors' = errors

\* C25: a worker whose forward lookup succeeded calls one reverse lookup per
\* returned address, one at a time in address order, and sends its mapping only
\* when the reverse lookup of the last address has returned; a reverse lookup
\* that fails leaves one warning for its address and the worker goes on as
\* after a successful one.
C25_ReverseLookupsBestEffort ==
    /\ [](ReverseLookupsInOrder /\ (revFailed <=> \E w \in Workers : Warnings(w) # {}))
    /\ [][ReverseReturnContinues]_vars

\* a worker has sent its mapping after a failed reverse lookup of its first
\* address and a successful one of its last address
C25_Witness ==
    \E w \in Succeeded :
        /\ Delivered(w)
        /\ Len(worker[w].ipAddrs) = MaxAddrs
        /\ worker[w].logged[1].level = "WARN"
        /\ worker[w].logged[MaxAddrs].level = "INFO"
        /\ worker[w].sent = <<"mappings">>

\* --------------------------------------------------------------------- C26
\* the multiset of the forward answers of the workers that have sent a mapping
DeliveredMappings ==
    [m \in {ForwardMapping(w) : w \in {v \in Succeeded : Delivered(v)}} |->
        Cardinality({w \in Succeeded : Delivered(w) /\ ForwardMapping(w) = m})]

\* worker w sends its mapping in this step
SendsMapping(w) == worker[w].sent = <<>> /\ worker'[w].sent = <<"mappings">>

\* the mapping a worker sends is its hostname with the answer of its forward lookup
MappingIsForwardAnswer ==
    \A w \in Workers :
        SendsMapping(w) =>
            mappings' = Append(mappings, [Hostname    |-> hostnames[w],
                                          IPAddresses |-> worker'[w].ipAddrs])

\* C26: the mapping a worker sends holds the hostname of that worker and the
\* answer of its forward lookup as the resolver returned it, same length, same
\* order, repeated addresses kept, whatever the reverse lookups returned; the
\* mappings in flight or collected are exactly those answers.
C26_MappingHoldsForwardAnswer ==
    /\ [](SeqToBag(mappings \o results) = DeliveredMappings)
    /\ [][MappingIsForwardAnswer]_vars

\* a collected mapping lists the addresses in the resolver's order, which is
\* not the numeric one, another repeats an address, and every reverse lookup
\* of the two workers failed
C26_Witness ==
    /\ \E i \in DOMAIN results : results[i].IPAddresses = <<2, 1>>
    /\ \E i \in DOMAIN results : results[i].IPAddresses = <<1, 1>>
    /\ \A w \in Workers : Warnings(w) = DOMAIN worker[w].ipAddrs

\* --------------------------------------------------------------------- C27
\* the pass ran to the end of the collecting loop with failures only
AllLookupsFailed ==
    /\ Returned
    /\ ret.err = "nil"
    /\ Len(ret.results) = 0
    /\ Len(errs) >= 1

\* the records about forward-lookup failures, of any goroutine of the pass
FailureRecords ==
    resolveLog \o Flatten([w \in 1..N |->
        SelectSeq(worker[w].logged, LAMBDA r : "error" \in DOMAIN r)])

C27_WitnessMixed ==
    /\ Returned /\ ret.err = "nil" /\ Len(errs) >= 1 /\ Len(ret.results) >= 1
    /\ FailureRecords = <<>>

\* --------------------------------------------------------------------- C28
\* the connection of the current call of certificates is open and the peer
\* has presented no certificate
EmptyChain == pc = "conn" /\ conn.open /\ conn.chain = <<>>

\* the call of certificates on such a connection returns in this step
EmptyChainReturn == EmptyChain /\ conn' # conn

\* the warning expected for the address of the last call of certificates
NoCertificatesWarning ==
    [level |-> "WARN", msg |-> "no certificates",
     hostname  |-> probes[Len(probes)].hostname,
     ipAddress |-> probes[Len(probes)].ipAddress]

\* the current call of certificates has logged the warning
LoggedNoCertificates == events # <<>> /\ events[1].msg = "no certificates"

\* C28: a call of certificates whose connection opens with an empty chain logs
\* nothing before it returns; its return logs exactly one warning carrying the
\* hostname and the address of that call and no certificate event, closes the
\* connection and makes no further probe of that address: main is at the next
\* address of the returned mappings, or at the end of the cycle after the last.
C28_EmptyChainWarns ==
    /\ [](EmptyChain => events = <<>>)
    /\ [][EmptyChainReturn
            => /\ events' = <<NoCertificatesWarning>>
               /\ ~conn'.open
               /\ probes' = probes
               /\ Len(probes) < Len(Targets(ret.results)) => pc' = "probe"
               /\ Len(probes) = Len(Targets(ret.results)) => pc' = "ran"]_vars
    /\ [](LoggedNoCertificates
            => /\ events = <<NoCertificatesWarning>>
               /\ ~conn.open
               /\ conn.chain = <<>>
               /\ Probed = SubSeq(Targets(ret.results), 1, Len(Probed)))
    /\ []((LoggedNoCertificates /\ pc \in {"ran", "wait"}) => Probed = Targets(ret.results))

\* the warning is the last thing logged for an address that is not the last
\* one of the cycle, and main is about to probe the next address
C28_Witness ==
    /\ LoggedNoCertificates
    /\ pc = "probe"
    /\ Len(probes) >= 1
    /\ Len(probes) < Len(Targets(ret.results))
    /\ ProbeAddress # events[1].ipAddress

\* --------------------------------------------------------------------- C29
\* the factory is called in this step
Construction == config' # config \/ netResolver' # netResolver

\* C29: for every server address, the nil address included, the factory
\* returns a handle with PreferGo and a Dial function and dials nothing; a
\* handle for the nil address exists without any error, and the error appears
\* in the dial made through it, while a dial through a handle for a valid
\* address has no address error.
C29_ConstructionNeverFails ==
    /\ [][Construction
            => /\ netResolver'.built
               /\ netResolver'.PreferGo
               /\ DOMAIN netResolver'.Dial = DialRequests
               /\ dialed' = NoDial]_vars
    /\ [](config.DNSresolvers # <<>> => netResolver.built)
    /\ [](dialed.made
            => (dialed.err # "nil" <=> config.DNSresolvers[1] = NilIP))

\* a handle was built for the nil address and a dial through it has failed
C29_Witness ==
    /\ netResolver.built
    /\ config.DNSresolvers = <<NilIP>>
    /\ dialed.made
    /\ dialed.conn.address = <<"<", "n", "i", "l", ">", ":", "5", "3">>
    /\ dialed.err = "no such host"

\* --------------------------------------------------------------------- C30
\* worker w has a lookup outstanding
Outstanding(w) == worker[w].st \in {"lookup", "reverse"}

\* the context that the outstanding lookup of worker w was called with is done
Cancelled(w) == Outstanding(w) /\ Done

\* the context of the pass becomes done in this step
BecomesDone == pc # "main" /\ ctxErr = "nil" /\ ctxErr' # "nil"

\* the timer of the deadline fires: nothing else happens in the step
TimerFires ==
    /\ timeout > 0
    /\ ctxErr' = "DeadlineExceeded"
    /\ UNCHANGED <<pc, worker, mappings, errors, results, errs, ret>>

\* resolve returns and its deferred cancel() runs
ReturnCancels == pc = "collect" /\ pc' = "returned" /\ ctxErr' = "Canceled"

\* C30: the lookups of all workers of a pass run under one context.  It is done
\* from the start for a zero timeout; otherwise it becomes done only when the
\* timer of the deadline fires or when resolve returns, never before and never
\* for some workers only; it then stays done with the same error, so from the
\* moment the deadline has elapsed every outstanding lookup of every worker is
\* cancelled; and a lookup fails as cancelled only under a done context.
C30_OneSharedDeadline ==
    /\ [][BecomesDone => (TimerFires \/ ReturnCancels)]_vars
    /\ [][(pc # "main" /\ Done) => (ctxErr' = ctxErr /\ timeout' = timeout)]_vars
    /\ []((pc # "main" /\ timeout = 0) => ctxErr = "DeadlineExceeded")
    /\ []((pc = "collect" /\ Done) => ctxErr = "DeadlineExceeded")
    /\ [](\A v \in Workers, w \in Workers :
            (Outstanding(v) /\ Outstanding(w)) => (Cancelled(v) <=> Cancelled(w)))
    /\ []((ctxErr = "DeadlineExceeded") => \A w \in Workers : Outstanding(w) => Cancelled(w))
    /\ []((revCancelled \/ lateFwd) => Done)

\* the deadline of a positive timeout has elapsed while resolve is collecting,
\* with one worker in its forward lookup and another in a reverse lookup
C30_Witness ==
    /\ pc = "collect"
    /\ timeout > 0
    /\ ctxErr = "DeadlineExceeded"
    /\ \E v \in Workers, w \in Workers :
          /\ worker[v].st = "lookup" /\ Cancelled(v)
          /\ worker[w].st = "reverse" /\ Cancelled(w)

\* --------------------------------------------------------------------- C31
\* resolve returns a nil error in this step
NilReturn == pc = "collect" /\ pc' = "returned" /\ ret'.err = "nil"

\* C31: when resolve returns a nil error every worker of the pass has ended,
\* so the cancel that runs at that return finds no forward or reverse lookup
\* in flight; after a return, a worker has a lookup outstanding only if the
\* return was the deadline-exceeded one.
C31_NilReturnFindsNoLookup ==
    /\ [][NilReturn => \A w \in Workers : ~Outstanding(w) /\ Delivered(w)]_vars
    /\ []((Returned /\ ret.err = "nil") => \A w \in Workers : ~Outstanding(w))
    /\ []((Returned /\ \E w \in Workers : Outstanding(w))
            => (cut /\ ret.err = "DeadlineExceeded"))

\* a nil return for a full list under a context that was live until the cancel
\* of the return, a worker having gone through all its reverse lookups
C31_Witness ==
    /\ Returned
    /\ ret.err = "nil"
    /\ N = MaxHosts
    /\ ctxErr = "Canceled"
    /\ \E w \in Succeeded : Len(worker[w].ipAddrs) = MaxAddrs

\* --------------------------------------------------------------------- C32
\* a goroutine of an abandoned pass delivers its outcome in this step
LateDelivery == pc' = pc /\ leftover' # leftover

\* C32: the delivery of a goroutine of an abandoned pass changes neither
\* channel of the current pass nor anything resolve has collected or returned;
\* whatever the leftover goroutines do, the mappings and errors in the channels
\* of a pass or collected by it are the outcomes of the workers of that pass,
\* and a nil return holds the mappings of those workers and nothing else.
C32_PassesAreIsolated ==
    /\ [][LateDelivery
            => UNCHANGED <<mappings, errors, results, errs, ret, worker>>]_vars
    /\ [](SeqToBag(mappings \o results) = DeliveredMappings)
    /\ [](SeqToBag(errors \o errs) = ForwardErrors)
    /\ []((ret # NoReturn /\ ret.err = "nil")
            => SeqToBag(ret.results) = ForwardMappings)

\* a pass was abandoned on its deadline with lookups outstanding; the pass of a
\* later cycle has returned mappings for all its hostnames while a goroutine of
\* the abandoned pass is still to deliver
C32_Witness ==
    /\ ret # NoReturn
    /\ ret.err = "nil"
    /\ Len(ret.results) = N
    /\ N >= 2
    /\ leftover # {}
    /\ pc = "probe"

\* --------------------------------------------------------------------- C33
\* a scan cycle is in progress: run() has been entered and has not returned
CycleRunning == pc \in {"run", "main", "collect", "returned", "probe", "conn"}

\* a call of run() begins
CycleStarts == pc # "run" /\ pc' = "run"

\* the runtime puts a tick in ticker.C
TickArrives == tickerC # "tick" /\ tickerC' = "tick"

\* C33: scan cycles never overlap. A call of run() begins only when no cycle
\* is in progress: from loadConfig, or from the loop over ticker.C after the
\* previous call of run() has returned and a tick is there to take. A tick
\* that arrives while a cycle is running starts nothing: it leaves main and
\* the cycle where they are, and waits in ticker.C. A connection is open or
\* a pass is collecting only inside the one cycle in progress.
C33_CyclesNeverOverlap ==
    /\ [][CycleStarts
            => /\ ~CycleRunning
               /\ \/ pc = "start"
                  \/ pc = "wait" /\ tickerC = "tick" /\ ret # NoReturn]_vars
    /\ [][TickArrives => UNCHANGED <<pc, passVars, netResolver, cursor, probes, conn,
                                     events, runLog>>]_vars
    /\ []((conn.open \/ pc = "collect") => CycleRunning)

C33_Witness == CycleRunning /\ pc = "conn" /\ conn.open /\ tickerC = "tick"
               /\ leftover # {}

\* --------------------------------------------------------------------- C34
\* the pass ran to the end of its collecting loop: every outcome was delivered
\* and collected and the collector never took the ctx.Done() case
CollectedInTime == Returned /\ ~cut

\* the returned mappings are not in the order of the input hostnames
OutOfInputOrder ==
    \E i, j \in DOMAIN ret.results :
        /\ i < j
        /\ \E v, w \in Workers :
              /\ v > w
              /\ ret.results[i] = ForwardMapping(v)
              /\ ret.results[j] = ForwardMapping(w)
              /\ ForwardMapping(v) # ForwardMapping(w)

\* C34: when every outcome was delivered and collected before the deadline
\* cut the pass short, what resolve returns is determined by the hostnames and
\* the outcomes of the forward lookups alone: the error is nil and the
\* returned mappings are, as a multiset, the mappings of the forward lookups
\* that succeeded. Two executions with the same outcomes therefore return the
\* same mappings whatever the interleaving of the workers and the arrival
\* order of their outcomes; they can differ in the order of the list only.
C34_ResultIndependentOfInterleaving ==
    CollectedInTime
        => /\ ret.err = "nil"
           /\ SeqToBag(ret.results) = ForwardMappings
           /\ Len(ret.results) = Cardinality(Succeeded)
           /\ \A i \in DOMAIN ret.results :
                 \E w \in Succeeded : ret.results[i] = ForwardMapping(w)

\* a pass that ended before its deadline elapsed and returned the mappings of
\* its two workers in the order opposite to the input, beside one in input order
C34_Witness ==
    /\ CollectedInTime
    /\ ctxErr = "Canceled"
    /\ N = MaxHosts
    /\ Succeeded = Workers
    /\ OutOfInputOrder

\* --------------------------------------------------------------------- C35
\* the configurations main can run a cycle with: loaded from a valid file,
\* with a resolver list that is not empty
RunnableConfigs ==
    {Loaded[f].params : f \in {g \in ValidFiles : Loaded[g].params.DNSresolvers # <<>>}}

\* the address every dial to DNS server ip goes to
ServerAddress(ip) == JoinHostPort(IPString(ip), <<"5", "3">>)

\* the dials a handle for the first entry can make: whatever the DNS client
\* asks for, the first server on port 53 with the configured timeout, and the
\* address of no other configured server
FirstServerOnly ==
    \A p \in RunnableConfigs : \A req \in DialRequests :
        LET d == resolver(p.DNSresolvers[1], p.Timeout).Dial[req]
        IN  /\ d.address = ServerAddress(p.DNSresolvers[1])
            /\ d.timeout = p.Timeout
            /\ d.network = req.network
            /\ \A i \in 2..Len(p.DNSresolvers) :
                  p.DNSresolvers[i] # p.DNSresolvers[1]
                     => d.address # ServerAddress(p.DNSresolvers[i])

\* the handle of a cycle under each runnable configuration
CycleHandle == [p \in RunnableConfigs |-> resolver(p.DNSresolvers[1], p.Timeout)]

\* a step of a DNS lookup of the pass
LookupStep == pc = "collect" /\ worker' # worker

\* C35: every scan cycle builds its resolver handle from the first entry of
\* the configured resolver list with the configured timeout. The handle
\* changes only when run() is entered, every lookup of the cycle is made while
\* that handle is the one in use, and every dial the handle can make goes to
\* the first server and to no other configured server.
C35_FirstResolverOnly ==
    /\ [][netResolver' # netResolver
            => /\ pc = "run"
               /\ pc' = "main"
               /\ config.DNSresolvers # <<>>
               /\ netResolver' = CycleHandle[config]]_vars
    /\ [][LookupStep => (netResolver.built /\ netResolver' = netResolver)]_vars
    /\ [](netResolver.built => (config \in RunnableConfigs /\ netResolver = CycleHandle[config]))
    /\ [](pc \in {"main", "collect", "returned", "probe", "conn"} => netResolver.built)
    /\ [](FirstServerOnly)

\* a later cycle under a configuration with two different resolvers, a reverse
\* lookup outstanding
C35_Witness ==
    /\ pc = "collect"
    /\ tickerC # "none"
    /\ Len(config.DNSresolvers) >= 2
    /\ config.DNSresolvers[1] # config.DNSresolvers[2]
    /\ \E w \in Workers : worker[w].st = "reverse"
    /\ \A req \in DialRequests : netResolver.Dial[req].address = <<"8", ".", "8", ".", "8", ".", "8", ":", "5", "3">>

\* --------------------------------------------------------------------- C36
\* a call of certificates begins: the dial of the next address
ProbeBegins == Len(probes') = Len(probes) + 1

\* a call of certificates that had its connection returns
ProbeReturns == pc = "conn" /\ pc' # "conn"

\* tls.DialWithDialer gives a connection
ConnOpens == ~conn.open /\ conn'.open

\* C36: the TLS probes of a cycle are strictly sequential. A connection is
\* open only inside the call of certificates that dialed it; a call of
\* certificates begins only when no connection is open; a connection opens
\* only in the dial of the address at the cursor; and the return of the call,
\* after the certificates were logged or after the warning for an empty chain,
\* leaves the connection closed before main goes to the next address.
C36_ProbesAreSequential ==
    /\ [](conn.open => pc = "conn")
    /\ [][ProbeBegins => (pc = "probe" /\ ~conn.open)]_vars
    /\ [][ConnOpens
            => /\ pc = "probe" /\ pc' = "conn"
               /\ ProbeBegins
               /\ probes'[Len(probes')].ipAddress = ProbeAddress]_vars
    /\ [][ProbeReturns
            => /\ conn.open /\ ~conn'.open
               /\ conn.i = Len(conn.chain)
               /\ pc' \in {"probe", "ran"}
               /\ cursor' # cursor]_vars

\* main is about to probe the next address, the connection of the previous
\* probe was open, its certificates were logged, and it is closed
C36_Witness ==
    /\ pc = "probe"
    /\ Len(probes) >= 1
    /\ ~conn.open
    /\ ~dialFailed
    /\ conn.chain # <<>>
    /\ conn.i = Len(conn.chain)
    /\ Len(events) = Len(conn.chain)
    /\ ProbeAddress # probes[Len(probes)].ipAddress

====
